---- MODULE Spec2Model ----
(***************************************************************************)
(* A model of the step-perf dataflow simulator: actors connected by        *)
(* time-stamped FIFO channels, and the operator actors of src/operator.    *)
(*                                                                         *)
(* State.  cfg is the configuration of the graph under simulation (ranks,  *)
(* input streams, channel depths); it is fixed by Init.  chan maps every   *)
(* channel to its queue and flags, hist is the log of everything ever      *)
(* enqueued on each channel, act maps every actor to its local state       *)
(* (position pc, clock clk, and the locals of its run function).           *)
(*                                                                         *)
(* One specification per graph; every action is one loop iteration of an   *)
(* actor's run().                                                          *)
(***************************************************************************)
EXTENDS Integers, Sequences, FiniteSets, TLC

VARIABLES cfg, chan, hist, act

vars == <<cfg, chan, hist, act>>

(***************************************************************************)
(* Bounds of the model.                                                    *)
(***************************************************************************)
MaxDim == 2
MaxRank == 2
MaxRepeat == 3
MaxLen == 3
MaxCap == 2
MaxOffset == 2
MaxMatrices == 1
MaxSels == 2

(***************************************************************************)
(* Generic helpers.                                                        *)
(***************************************************************************)
Max(a, b) == IF a >= b THEN a ELSE b

Min(a, b) == IF a <= b THEN a ELSE b

RECURSIVE Product(_)
Product(s) == IF s = <<>> THEN 1 ELSE Head(s) * Product(Tail(s))

Reverse(s) == [i \in 1..Len(s) |-> s[Len(s) + 1 - i]]

RECURSIVE Concat(_)
Concat(ss) == IF ss = <<>> THEN <<>> ELSE Head(ss) \o Concat(Tail(ss))

RECURSIVE Repeat(_, _)
Repeat(s, n) == IF n = 0 THEN <<>> ELSE s \o Repeat(s, n - 1)

\* Sequences over S of length lo..hi.
SeqsOf(S, lo, hi) == UNION {[1..n -> S] : n \in lo..hi}

(***************************************************************************)
(* Stream elements (primitives/elem.rs).  A Val carries level 0 in the     *)
(* record so that all elements have the same fields; the kind k tells      *)
(* Val(x) from ValStop(x, 0).                                              *)
(***************************************************************************)
Val(x) == [k |-> "Val", v |-> x, s |-> 0]

ValStop(x, n) == [k |-> "ValStop", v |-> x, s |-> n]

\* The elements of a channel log, without their timestamps.
Elems(log) == [i \in 1..Len(log) |-> log[i][2]]

\* The timestamps of a channel log.
Times(log) == [i \in 1..Len(log) |-> log[i][1]]

\* The kind and level of every element, payloads dropped.
Levels(es) == [i \in 1..Len(es) |-> <<es[i].k, es[i].s>>]

(***************************************************************************)
(* Channel runtime (spec section 4.1).  cap = 0 is an unbounded channel.   *)
(* dq logs the receiver's clock at every dequeue of a bounded channel: the *)
(* sender of element n waits for the dequeue of element n - cap.           *)
(***************************************************************************)
NewChan(cap) == [q |-> <<>>, closed |-> FALSE, cap |-> cap, dq |-> <<>>]

\* peek(): Something(elem), Nothing or Closed.
peek(c) ==
    IF chan[c].q # <<>> THEN [r |-> "Something", t |-> Head(chan[c].q)[1], e |-> Head(chan[c].q)[2]]
    ELSE IF chan[c].closed THEN [r |-> "Closed", t |-> 0, e |-> Val(0)]
    ELSE [r |-> "Nothing", t |-> 0, e |-> Val(0)]

\* The actor holding the sender of each channel that is polled with peek().
SenderOf ==
    IF cfg.graph = "FR" THEN [e0 |-> "x0", e1 |-> "x1"]
    ELSE [in0 |-> "s0", in1 |-> "s1", e0 |-> "fp", e1 |-> "fp"]

\* peek() called at the receiver's clock clk.  The engine is conservative:
\* an empty channel answers Nothing only once its sender's clock has reached
\* clk, so that no element stamped before clk can arrive later; until then
\* the call has not returned ("Wait").
peek_at(c, clk) ==
    IF peek(c).r = "Nothing" /\ act[SenderOf[c]].clk < clk
    THEN [peek(c) EXCEPT !.r = "Wait"]
    ELSE peek(c)

\* enqueue blocks while a bounded channel is full.
HasRoom(c) == chan[c].cap = 0 \/ Len(chan[c].q) < chan[c].cap

\* The sender's clock once enqueue has returned.
EnqClk(c, clk) ==
    IF chan[c].cap > 0 /\ Len(hist[c]) >= chan[c].cap
    THEN Max(clk, chan[c].dq[Len(hist[c]) + 1 - chan[c].cap])
    ELSE clk

\* The channel map after enqueueing the sequence of <<time, elem>> es on c.
EnqAll(ch, c, es) == [ch EXCEPT ![c].q = @ \o es]

\* The channel map after the receiver, its clock now at clk, dequeued from c.
Deq(ch, c, clk) ==
    [ch EXCEPT ![c].q = Tail(@),
               ![c].dq = IF ch[c].cap > 0 THEN Append(@, clk) ELSE @]

\* Dropping the sender ends of the channels cs.
Drop(ch, cs) == [c \in DOMAIN ch |-> IF c \in cs THEN [ch[c] EXCEPT !.closed = TRUE] ELSE ch[c]]

\* Timestamping a run of elements es sent one per cycle from clock clk.
Stamp(es, clk) == [i \in 1..Len(es) |-> <<clk + i - 1, es[i]>>]

(***************************************************************************)
(* Source actors: a generator sends the elements of a given stream, one    *)
(* per cycle, then returns, which drops its sender.                        *)
(***************************************************************************)
GenStep(a, c, stream) ==
    /\ act[a].pc = "run"
    /\ IF act[a].i <= Len(stream)
       THEN /\ HasRoom(c)
            /\ chan' = EnqAll(chan, c, <<<<act[a].clk, stream[act[a].i]>>>>)
            /\ hist' = [hist EXCEPT ![c] = Append(@, <<act[a].clk, stream[act[a].i]>>)]
            /\ act' = [act EXCEPT ![a].i = @ + 1, ![a].clk = EnqClk(c, act[a].clk) + 1]
       ELSE /\ chan' = Drop(chan, {c})
            /\ hist' = hist
            /\ act' = [act EXCEPT ![a].pc = "done"]
    /\ UNCHANGED cfg

(***************************************************************************)
(* Buffer (primitives/buffer.rs).  A buffer is [shape, data]: the ndarray  *)
(* shape and the elements in row-major order.                              *)
(***************************************************************************)
\* The multi-index (outermost first) of the flat row-major position i0 >= 0.
RECURSIVE MultiIndex(_, _)
MultiIndex(i0, shape) ==
    IF shape = <<>> THEN <<>>
    ELSE LET inner == Product(Tail(shape))
         IN  <<(i0 \div inner) % Head(shape)>> \o MultiIndex(i0 % inner, Tail(shape))

\* The first (0-based) position where two multi-indices differ.
outermost_diff_index(a, b) ==
    (CHOOSE d \in 1..Len(a) : a[d] # b[d] /\ \A e \in 1..(d - 1) : a[e] = b[e]) - 1

\* Buffer::to_elem_iter: the stop-token stream of a buffer.
to_elem_iter(buf) ==
    LET ndim == Len(buf.shape)
        n == Len(buf.data)
        lvl(i) == ndim - outermost_diff_index(MultiIndex(i, buf.shape),
                                              MultiIndex(i - 1, buf.shape)) - 1
    IN  IF n = 1 THEN <<ValStop(buf.data[1], 1)>>
        ELSE [i \in 1..n |->
                IF i = n THEN ValStop(buf.data[i], ndim)
                ELSE IF lvl(i) = 0 THEN Val(buf.data[i])
                ELSE ValStop(buf.data[i], lvl(i))]

\* The locals of Buffer::from_stream at its start.
FromStreamInit == [buffer |-> <<>>, shape_info |-> <<0>>, tracked |-> 0]

\* ArcArray::from_shape_vec accepts the data only when it fills the shape.
ShapeFits(shape_info, buffer) == Product(shape_info) = Len(buffer)

\* Buffer::from_stream, one dequeued element e at a time.  The result is the
\* locals after the element and what the loop does next: "more" (keep
\* reading), "ok" (a full buffer), "stop" (a full buffer and a residual
\* stop level) or "panic" (index out of bounds, or a shape mismatch).
from_stream(l, e, rank) ==
    LET buffer == Append(l.buffer, e.v)
        si == l.shape_info
        close(lev) ==
            IF rank > Len(si) THEN [l |-> l, r |-> "panic", lev |-> 0]
            ELSE LET si2 == [si EXCEPT ![rank] = @ + 1]
                 IN  IF ShapeFits(si2, buffer)
                     THEN [l |-> [l EXCEPT !.buffer = buffer, !.shape_info = si2],
                           r |-> IF lev = 0 THEN "ok" ELSE "stop", lev |-> lev]
                     ELSE [l |-> l, r |-> "panic", lev |-> 0]
    IN  IF e.k = "Val"
        THEN [l |-> [l EXCEPT !.buffer = buffer,
                              !.shape_info = IF Len(si) = 1 THEN [si EXCEPT ![1] = @ + 1] ELSE si],
              r |-> "more", lev |-> 0]
        ELSE IF e.s = rank THEN close(0)
        ELSE IF e.s > rank THEN close(e.s - rank)
        ELSE IF Len(si) = e.s
             THEN [l |-> [buffer |-> buffer,
                          shape_info |-> Append([si EXCEPT ![e.s] = @ + 1], 1),
                          tracked |-> l.tracked + 1],
                   r |-> "more", lev |-> 0]
        ELSE IF Len(si) > e.s /\ l.tracked <= e.s
             THEN [l |-> [l EXCEPT !.buffer = buffer, !.shape_info[e.s + 1] = @ + 1],
                   r |-> "more", lev |-> 0]
        ELSE [l |-> [l EXCEPT !.buffer = buffer], r |-> "more", lev |-> 0]

\* The buffer from_stream returns from its final locals.
BufferOf(l) == [shape |-> Reverse(l.shape_info), data |-> l.buffer]

(***************************************************************************)
(* Bufferize (operator/bufferize.rs): reads "in", writes buffers to "bufs".*)
(***************************************************************************)
\* One dequeue of from_stream inside Bufferize::run, or its end of stream.
Bufferize_read ==
    /\ act.buf.pc = "run"
    /\ LET p == peek("in")
           l == act.buf.l
       IN  \/ /\ p.r = "Something"
              /\ LET clk == Max(act.buf.clk, p.t)
                     res == from_stream(l, p.e, cfg.rank)
                     created == IF l.buffer = <<>> THEN clk ELSE act.buf.created
                 IN  /\ chan' = IF res.r = "panic" THEN Drop(Deq(chan, "in", clk), {"bufs"})
                                ELSE Deq(chan, "in", clk)
                     /\ act' = [act EXCEPT !.buf =
                          CASE res.r = "more" ->
                                 [@ EXCEPT !.l = res.l, !.clk = clk + 1, !.created = created]
                            [] res.r = "panic" -> [@ EXCEPT !.pc = "fail", !.clk = clk]
                            [] OTHER ->
                                 [@ EXCEPT !.pc = "emit", !.clk = clk, !.l = FromStreamInit,
                                           !.created = created,
                                           !.pend = IF res.r = "ok" THEN Val(BufferOf(res.l))
                                                    ELSE ValStop(BufferOf(res.l), res.lev)]]
           \/ /\ p.r = "Closed"
              /\ chan' = Drop(chan, {"bufs"})
              /\ act' = [act EXCEPT !.buf.pc = IF l.buffer = <<>> THEN "done" ELSE "fail"]
    /\ UNCHANGED <<cfg, hist>>

\* The enqueue of the finished buffer in Bufferize::run.
Bufferize_emit ==
    /\ act.buf.pc = "emit"
    /\ HasRoom("bufs")
    /\ chan' = EnqAll(chan, "bufs", <<<<act.buf.clk, act.buf.pend>>>>)
    /\ hist' = [hist EXCEPT !.bufs = Append(@, <<act.buf.clk, act.buf.pend>>)]
    /\ act' = [act EXCEPT !.buf.pc = "run", !.buf.clk = EnqClk("bufs", act.buf.clk)]
    /\ UNCHANGED cfg

(***************************************************************************)
(* Streamify (operator/streamify.rs): reads "bufs", writes "out".          *)
(***************************************************************************)
\* One linear read of the buffer: the stop of level rank is raised by bump.
OneRead(buf, rank, bump) ==
    LET es == to_elem_iter(buf)
    IN  [i \in 1..Len(es) |->
            IF es[i].k = "ValStop" /\ es[i].s = rank
            THEN ValStop(es[i].v, es[i].s + bump) ELSE es[i]]

\* The reads of one entry of repeat_factor: the i-th entry from the right
\* (i from 0), repeated rf times, the last read raised by outer + 1 + i.
RepeatLoop(buf, rank, outer, i, rf) ==
    IF rf = 0 THEN <<>>
    ELSE Repeat(OneRead(buf, rank, 0), rf - 1) \o OneRead(buf, rank, outer + 1 + i)

\* Everything Streamify::run emits for one input element be.
StreamifyEmit(be, rank, repeat_factor) ==
    LET outer == IF be.k = "Val" THEN 0 ELSE be.s
        rev == Reverse(repeat_factor)
    IN  IF repeat_factor = <<>> THEN OneRead(be.v, rank, outer)
        ELSE Concat([i \in 1..Len(rev) |-> RepeatLoop(be.v, rank, outer, i - 1, rev[i])])

\* One iteration of Streamify::run: peek_next, emit, dequeue.
Streamify_run ==
    /\ act.str.pc = "run"
    /\ LET p == peek("bufs")
       IN  \/ /\ p.r = "Something"
              /\ LET clk == Max(act.str.clk, p.t)
                     es == Stamp(StreamifyEmit(p.e, cfg.rank, cfg.repeat_factor), clk)
                 IN  /\ chan' = Deq(EnqAll(chan, "out", es), "bufs", clk + Len(es))
                     /\ hist' = [hist EXCEPT !.out = @ \o es]
                     /\ act' = [act EXCEPT !.str.clk = clk + Len(es)]
           \/ /\ p.r = "Closed"
              /\ chan' = Drop(chan, {"out"})
              /\ hist' = hist
              /\ act' = [act EXCEPT !.str.pc = "done"]
    /\ UNCHANGED cfg

(***************************************************************************)
(* Well-formed streams (spec section 4.2): the stop-token encoding of a    *)
(* dense shape, payloads numbered 1..n; the level after an element is the  *)
(* number of dimensions that wrap there.                                   *)
(***************************************************************************)
StreamOf(shape) ==
    LET n == Product(shape)
        ndim == Len(shape)
        wraps(i) == IF i = n THEN ndim
                    ELSE ndim - 1 - outermost_diff_index(MultiIndex(i, shape),
                                                         MultiIndex(i - 1, shape))
    IN  [i \in 1..n |-> IF wraps(i) = 0 THEN Val(i) ELSE ValStop(i, wraps(i))]

Shapes(lo, hi) == SeqsOf(1..MaxDim, lo, hi)

(***************************************************************************)
(* Graph BS: gen -> "in" -> Bufferize -> "bufs" -> Streamify -> "out"      *)
(* (the round-trip tests of operator/streamify.rs).                        *)
(***************************************************************************)
InitBS ==
    /\ cfg \in [graph : {"BS"},
                rank : 1..MaxRank,
                shape : Shapes(1, MaxRank + 1),
                repeat_factor : SeqsOf(1..MaxRepeat, 0, 2)]
    /\ Len(cfg.shape) \in {cfg.rank, cfg.rank + 1}
    /\ chan = [in |-> NewChan(0), bufs |-> NewChan(1), out |-> NewChan(0)]
    /\ hist = [in |-> <<>>, bufs |-> <<>>, out |-> <<>>]
    /\ act = [gen |-> [pc |-> "run", clk |-> 0, i |-> 1],
              buf |-> [pc |-> "run", clk |-> 0, l |-> FromStreamInit, created |-> 0,
                       pend |-> Val(0)],
              str |-> [pc |-> "run", clk |-> 0]]

GenBS == GenStep("gen", "in", StreamOf(cfg.shape))

NextBS == GenBS \/ Bufferize_read \/ Bufferize_emit \/ Streamify_run

SpecBS == InitBS /\ [][NextBS]_vars

\* Every actor of the graph has returned or panicked.
Finished == \A a \in DOMAIN act : act[a].pc \in {"done", "fail"}

Failed == \E a \in DOMAIN act : act[a].pc = "fail"

(***************************************************************************)
(* Claims about Bufferize and Streamify.                                   *)
(***************************************************************************)
\* C1: with an empty repeat_factor, Bufferize(rank) followed by
\* Streamify(rank) emits exactly the input's elements with the same stop
\* level at every position, for every rank and every well-formed input: once
\* the run is over, no actor has failed and "out" carries what "in" carried.
C1_RoundTrip ==
    (cfg.graph = "BS" /\ cfg.repeat_factor = <<>> /\ Finished)
        => (~Failed /\ Elems(hist.out) = StreamOf(cfg.shape))

\* The last element of es with its stop level raised by n.
RaiseLast(es, n) ==
    IF es = <<>> \/ n = 0 THEN es
    ELSE [es EXCEPT ![Len(es)] = ValStop(@.v, @.s + n)]

\* The traversal es wrapped in nested loops, rf[1] the outermost.
RECURSIVE Nested(_, _)
Nested(es, rf) ==
    IF rf = <<>> THEN es
    ELSE LET body == Nested(es, Tail(rf))
         IN  Repeat(body, Head(rf) - 1) \o RaiseLast(body, 1)

\* The buffer elements Streamify has consumed so far.
StreamifyConsumed == SubSeq(Elems(hist.bufs), 1, Len(hist.bufs) - Len(chan.bufs.q))

\* C2: for repeat_factor [r_1..r_k] the output for each input buffer is the
\* buffer traversal wrapped in k nested loops (r_k innermost): n * r_1 * ... *
\* r_k elements, each loop raising the stop level of the last element of the
\* group it closes by 1.
C2_NestedLoops ==
    cfg.graph = "BS" =>
        Elems(hist.out) =
            Concat([j \in 1..Len(StreamifyConsumed) |->
                      LET be == StreamifyConsumed[j]
                      IN  RaiseLast(Nested(to_elem_iter(be.v), cfg.repeat_factor),
                                    IF be.k = "Val" THEN 0 ELSE be.s)])

(***************************************************************************)
(* Promote (operator/promote.rs): reads "in", writes "out".                *)
(***************************************************************************)
\* A stream given by the stop level of each element (0: a plain Val), the
\* payloads numbered from 1.
StreamOfLevels(levels) ==
    [i \in 1..Len(levels) |-> IF levels[i] = 0 THEN Val(i) ELSE ValStop(i, levels[i])]

\* The stop level a ValStop(x, s) leaves with, as the claimed rule has it.
new_stop_rank_strict(promote_rank, s) == IF promote_rank >= s THEN s ELSE s + 1

\* The stop level a ValStop(x, s) leaves with.
new_stop_rank(promote_rank, s) == IF promote_rank > s THEN s ELSE s + 1

\* What Promote emits for one input element.
PromoteElem(e, promote_rank) ==
    IF e.k = "Val"
    THEN IF promote_rank = 0 THEN ValStop(e.v, 1) ELSE Val(e.v)
    ELSE ValStop(e.v, new_stop_rank(promote_rank, e.s))

\* One iteration of Promote::run: dequeue, enqueue at the current tick.
Promote_run ==
    /\ act.pro.pc = "run"
    /\ LET p == peek("in")
       IN  \/ /\ p.r = "Something"
              /\ LET clk == Max(act.pro.clk, p.t)
                     o == <<clk, PromoteElem(p.e, cfg.promote_rank)>>
                 IN  /\ chan' = Deq(EnqAll(chan, "out", <<o>>), "in", clk)
                     /\ hist' = [hist EXCEPT !.out = Append(@, o)]
                     /\ act' = [act EXCEPT !.pro.clk = clk]
           \/ /\ p.r = "Closed"
              /\ chan' = Drop(chan, {"out"})
              /\ hist' = hist
              /\ act' = [act EXCEPT !.pro.pc = "done"]
    /\ UNCHANGED cfg

(***************************************************************************)
(* Graph Promote: gen -> "in" -> Promote -> "out" (test promote_2d).       *)
(***************************************************************************)
InitPromote ==
    /\ cfg \in [graph : {"Promote"},
                promote_rank : 0..MaxRank,
                input : {StreamOfLevels(l) : l \in SeqsOf(0..(MaxRank + 1), 1, MaxLen)}]
    /\ chan = [in |-> NewChan(0), out |-> NewChan(0)]
    /\ hist = [in |-> <<>>, out |-> <<>>]
    /\ act = [gen |-> [pc |-> "run", clk |-> 0, i |-> 1],
              pro |-> [pc |-> "run", clk |-> 0]]

GenPromote == GenStep("gen", "in", cfg.input)

NextPromote == GenPromote \/ Promote_run

SpecPromote == InitPromote /\ [][NextPromote]_vars

\* C10 (as stated): every input ValStop(x, s) leaves Promote as
\* ValStop(x, s + 1) when s > promote_rank and as ValStop(x, s) when
\* s <= promote_rank.
C10_PromoteStrict ==
    \A i \in 1..Len(hist.out) :
        LET e == cfg.input[i]
        IN  e.k = "ValStop" =>
              hist.out[i][2] = ValStop(e.v, IF e.s > cfg.promote_rank THEN e.s + 1 ELSE e.s)

\* C10 (amended): every input ValStop(x, s) leaves Promote as
\* ValStop(x, s + 1) when s >= promote_rank and as ValStop(x, s) when
\* s < promote_rank.
C10_Promote ==
    \A i \in 1..Len(hist.out) :
        LET e == cfg.input[i]
        IN  e.k = "ValStop" =>
              hist.out[i][2] = ValStop(e.v, IF e.s >= cfg.promote_rank THEN e.s + 1 ELSE e.s)

\* Promote has re-emitted stops below, at and above promote_rank.
C10_Witness ==
    /\ cfg.graph = "Promote"
    /\ \A d \in {-1, 0, 1} :
         \E i \in 1..Len(hist.out) :
            /\ cfg.input[i].k = "ValStop"
            /\ cfg.input[i].s = cfg.promote_rank + d

(***************************************************************************)
(* Graph Chan: sender -> "c" -> reader (test/test_simple_timing.rs).  The  *)
(* sender enqueues n elements and returns; the reader dequeues until the   *)
(* channel reports Closed.  cfg.delay = 1 is the sender of simple_timing   *)
(* (stamp tick + 1, one cycle per element), cfg.delay = 0 the sender of    *)
(* dequeue_at_same_cycle.  cfg.mode = "peek_next" is a reader that waits   *)
(* in peek_next before every dequeue, as the operators do.                 *)
(***************************************************************************)
InitChan ==
    /\ cfg \in [graph : {"Chan"}, n : 0..MaxLen, cap : 0..MaxCap,
                delay : {0, 1}, mode : {"dequeue", "peek_next"}]
    /\ chan = [c |-> NewChan(cfg.cap)]
    /\ hist = [c |-> <<>>]
    /\ act = [snd |-> [pc |-> "run", clk |-> 0, i |-> 1, left |-> 0],
              rd |-> [pc |-> "run", clk |-> 0, got |-> <<>>]]

\* The sender closure: one enqueue per step, then the return that drops the
\* sender; left records how many elements were queued at that moment.
Sender_run ==
    /\ act.snd.pc = "run"
    /\ IF act.snd.i <= cfg.n
       THEN LET o == <<act.snd.clk + cfg.delay, Val(act.snd.i)>>
            IN  /\ HasRoom("c")
                /\ chan' = EnqAll(chan, "c", <<o>>)
                /\ hist' = [hist EXCEPT !.c = Append(@, o)]
                /\ act' = [act EXCEPT !.snd.i = @ + 1,
                                      !.snd.clk = EnqClk("c", act.snd.clk) + cfg.delay]
       ELSE /\ chan' = Drop(chan, {"c"})
            /\ hist' = hist
            /\ act' = [act EXCEPT !.snd.pc = "done", !.snd.left = Len(chan.c.q)]
    /\ UNCHANGED cfg

\* What the reader has received once it received e as well: received first.
ReceivedFirst(got, e) == <<e>> \o got

\* What the reader has received once it received e as well.
Received(got, e) == Append(got, e)

\* The reader closure: a blocking peek_next (mode "peek_next" only), then a
\* blocking dequeue; Err (Closed) makes it return.
Reader_run ==
    /\ act.rd.pc \in {"run", "peeked"}
    /\ LET p == peek("c")
       IN  \/ /\ p.r = "Something"
              /\ LET clk == Max(act.rd.clk, p.t)
                 IN  IF cfg.mode = "peek_next" /\ act.rd.pc = "run"
                     THEN /\ chan' = chan
                          /\ act' = [act EXCEPT !.rd.pc = "peeked", !.rd.clk = clk]
                     ELSE /\ chan' = Deq(chan, "c", clk)
                          /\ act' = [act EXCEPT !.rd.pc = "run", !.rd.clk = clk,
                                                !.rd.got = Received(@, p.e)]
           \/ /\ p.r = "Closed"
              /\ chan' = chan
              /\ act' = [act EXCEPT !.rd.pc = "done"]
    /\ UNCHANGED <<cfg, hist>>

NextChan == Sender_run \/ Reader_run

\* Both closures run on threads of their own: each keeps being scheduled.
SpecChan == InitChan /\ [][NextChan]_vars /\ WF_vars(Sender_run) /\ WF_vars(Reader_run)

\* C6: once the sender of the channel has been dropped, the receiver waiting
\* in peek_next or dequeue receives every element still queued, in order,
\* and then observes Closed after finitely many steps: it returns having
\* received exactly the enqueued sequence.
C6_CloseDrains ==
    /\ [](act.rd.pc = "done" => chan.c.closed /\ chan.c.q = <<>>)
    /\ chan.c.closed ~> (act.rd.pc = "done" /\ act.rd.got = Elems(hist.c))

\* The sender was dropped with two or more elements still queued, and the
\* reader has since received them all and returned.
C6_Witness ==
    /\ cfg.graph = "Chan"
    /\ act.snd.left >= 2
    /\ act.rd.pc = "done"
    /\ act.rd.got = Elems(hist.c)

(***************************************************************************)
(* EagerMerge (operator/eager_merge.rs) and the SenderContext of its       *)
(* tests.  Inputs are the channels EMIn[1], EMIn[2]; the code's stream     *)
(* index of EMIn[j] is j - 1.                                              *)
(***************************************************************************)
EMIn == <<"in0", "in1">>

EMSenders == <<"s0", "s1">>

\* The number of elements SenderContext sends per matrix.
TileElems == 4

\* The elements of one matrix sent from clock clk: Val, ValStop 1, Val,
\* ValStop 2, stamped clk + j; the payload is the sender's blank tile.
SenderTile(tile, clk) ==
    [j \in 1..TileElems |->
        <<clk + j - 1,
          IF j % 4 = 0 THEN ValStop(tile, 2)
          ELSE IF j % 2 = 0 THEN ValStop(tile, 1)
          ELSE Val(tile)>>]

\* SenderContext::run of sender k: the leading incr_cycles(offset), then one
\* matrix and its incr_cycles(offset) per step, then the return.
SenderContext_run(k) ==
    LET a == EMSenders[k]
        c == EMIn[k]
        me == act[a]
        par == cfg.senders[k]
    IN  /\ me.pc \in {"start", "run"}
        /\ IF me.pc = "start"
           THEN /\ act' = [act EXCEPT ![a].pc = "run", ![a].clk = @ + par.offset]
                /\ UNCHANGED <<chan, hist>>
           ELSE IF me.m < par.num_matrices
           THEN LET es == SenderTile(k, me.clk)
                IN  /\ chan' = EnqAll(chan, c, es)
                    /\ hist' = [hist EXCEPT ![c] = @ \o es]
                    /\ act' = [act EXCEPT ![a].m = @ + 1, ![a].clk = @ + par.offset]
           ELSE /\ chan' = Drop(chan, {c})
                /\ hist' = hist
                /\ act' = [act EXCEPT ![a].pc = "done"]
        /\ UNCHANGED cfg

\* The locals of get_earliest_input_idx at its start (idx -1 is None).
EarliestInit ==
    [i |-> 0, earliest_time |-> 0, earliest_input_idx |-> -1,
     peeked_something |-> [j \in 1..Len(EMIn) |-> FALSE],
     closed_streams |-> [j \in 1..Len(EMIn) |-> FALSE]]

\* The locals after the peek of stream l.i answered p.
AfterPeek(l, p) ==
    LET j == l.i + 1
    IN  IF l.peeked_something[j] THEN l
        ELSE IF p.r = "Something"
        THEN [l EXCEPT !.peeked_something[j] = TRUE,
                       !.earliest_input_idx =
                            IF @ = -1 \/ p.t < l.earliest_time THEN l.i ELSE @,
                       !.earliest_time =
                            IF l.earliest_input_idx = -1 \/ p.t < @ THEN p.t ELSE @]
        ELSE IF p.r = "Closed"
        THEN [l EXCEPT !.peeked_something[j] = TRUE, !.closed_streams[j] = TRUE]
        ELSE l

\* A round end that returns the earliest input seen so far without waiting
\* for the clock to reach its timestamp.
RoundEndHasty(l, clk) ==
    IF l.earliest_input_idx # -1 THEN "some"
    ELSE IF \A j \in 1..Len(EMIn) : l.closed_streams[j] THEN "none" ELSE "spin"

\* What the end of a polling round decides: "spin" (incr_cycles(1) and poll
\* again), "some" (return Some(idx)) or "none" (return None).
RoundEnd(l, clk) ==
    IF l.earliest_input_idx # -1
    THEN IF (\E j \in 1..Len(EMIn) : ~l.peeked_something[j]) /\ clk < l.earliest_time
         THEN "spin" ELSE "some"
    ELSE IF \A j \in 1..Len(EMIn) : l.closed_streams[j] THEN "none" ELSE "spin"

\* The heads the inputs hold right now: the timestamp, or -1 without a head.
HeadTimes == [j \in 1..Len(EMIn) |-> IF peek(EMIn[j]).r = "Something" THEN peek(EMIn[j]).t ELSE -1]

\* How many elements have been dequeued from each input.
Taken == [j \in 1..Len(EMIn) |-> Len(hist[EMIn[j]]) - Len(chan[EMIn[j]].q)]

\* A selector that names input 0 whatever was chosen.
from_sel_vec_first(sel_vec, size) == [i \in 1..size |-> i = 1]

\* MultiHotN::from_sel_vec: size bits, true at the indices (from 0) of sel_vec.
from_sel_vec(sel_vec, size) ==
    [i \in 1..size |-> \E j \in 1..Len(sel_vec) : sel_vec[j] = i - 1]

\* One stream.peek() of get_earliest_input_idx and, after the last stream of
\* a round, the decision; on Some(idx) the selector is enqueued.
EagerMerge_poll ==
    /\ act.em.pc = "poll"
    /\ LET me == act.em
           p == peek_at(EMIn[me.l.i + 1], me.clk)
           l == AfterPeek(me.l, p)
           last == me.l.i + 1 = Len(EMIn)
           d == RoundEnd(l, me.clk)
       IN  IF p.r = "Wait" /\ ~me.l.peeked_something[me.l.i + 1] THEN FALSE
           ELSE IF ~last
           THEN /\ act' = [act EXCEPT !.em.l = [l EXCEPT !.i = @ + 1]]
                /\ UNCHANGED <<chan, hist>>
           ELSE CASE d = "spin" ->
                       /\ act' = [act EXCEPT !.em.l = [l EXCEPT !.i = 0], !.em.clk = @ + 1]
                       /\ UNCHANGED <<chan, hist>>
                  [] d = "none" ->
                       /\ act' = [act EXCEPT !.em.pc = "done"]
                       /\ chan' = Drop(chan, {"sel", "out"})
                       /\ hist' = hist
                  [] OTHER ->
                       LET o == <<me.clk, Val(from_sel_vec(<<l.earliest_input_idx>>, Len(EMIn)))>>
                       IN  /\ act' = [act EXCEPT
                                 !.em.pc = "drain", !.em.l = l,
                                 !.em.picks = Append(@, [idx |-> l.earliest_input_idx,
                                                         t |-> l.earliest_time,
                                                         heads |-> HeadTimes,
                                                         taken |-> Taken])]
                           /\ chan' = EnqAll(chan, "sel", <<o>>)
                           /\ hist' = [hist EXCEPT !.sel = Append(@, o)]
    /\ UNCHANGED cfg

\* A drain loop that leaves after every element.
group_done_hasty(e) == TRUE

\* The breaks of the drain loop: a Val ends the group at input_rank 0, a
\* ValStop when its level is input_rank.
group_done(e) == IF e.k = "Val" THEN cfg.input_rank = 0 ELSE e.s = cfg.input_rank

\* One dequeue of the drain loop of EagerMerge::run.
EagerMerge_drain ==
    /\ act.em.pc = "drain"
    /\ LET me == act.em
           c == EMIn[me.l.earliest_input_idx + 1]
           p == peek(c)
       IN  \/ /\ p.r = "Something"
              /\ LET clk == Max(me.clk, p.t)
                     o == <<clk, p.e>>
                     done == group_done(p.e)
                     panic == p.e.k = "ValStop" /\ p.e.s > cfg.input_rank
                 IN  /\ chan' = IF panic
                                THEN Drop(Deq(EnqAll(chan, "out", <<o>>), c, clk), {"sel", "out"})
                                ELSE Deq(EnqAll(chan, "out", <<o>>), c, clk)
                     /\ hist' = [hist EXCEPT !.out = Append(@, o)]
                     /\ act' = [act EXCEPT !.em =
                          IF done THEN [@ EXCEPT !.pc = "poll", !.clk = clk, !.l = EarliestInit]
                          ELSE IF panic THEN [@ EXCEPT !.pc = "fail", !.clk = clk]
                          ELSE [@ EXCEPT !.clk = clk + 1]]
           \/ /\ p.r = "Closed"
              /\ chan' = Drop(chan, {"sel", "out"})
              /\ hist' = hist
              /\ act' = [act EXCEPT !.em.pc = "done"]
    /\ UNCHANGED cfg

(***************************************************************************)
(* Graph EM: two SenderContexts -> EagerMerge -> "out", "sel" (test        *)
(* eager_merge_simple_2d).  To compare two runs of one configuration, sim  *)
(* keeps the channel logs and the elapsed cycles of the first run.         *)
(***************************************************************************)
\* The elapsed cycles of a run: the latest clock of its actors.
RECURSIVE MaxOf(_)
MaxOf(S) == IF S = {} THEN 0 ELSE LET x == CHOOSE y \in S : TRUE IN Max(x, MaxOf(S \ {x}))

Elapsed == MaxOf({act[a].clk : a \in DOMAIN act})

EMChans ==
    [in0 |-> NewChan(0), in1 |-> NewChan(0), sel |-> NewChan(0), out |-> NewChan(0)]

EMLogs == [in0 |-> <<>>, in1 |-> <<>>, sel |-> <<>>, out |-> <<>>]

EMActors(sim) ==
    [s0 |-> [pc |-> "start", clk |-> 0, m |-> 0],
     s1 |-> [pc |-> "start", clk |-> 0, m |-> 0],
     em |-> [pc |-> "poll", clk |-> 0, l |-> EarliestInit, picks |-> <<>>],
     sim |-> sim]

InitEM ==
    /\ cfg \in [graph : {"EM"},
                input_rank : 1..MaxRank,
                senders : [1..Len(EMIn) -> [num_matrices : 0..MaxMatrices,
                                            offset : 0..MaxOffset]]]
    /\ chan = EMChans
    /\ hist = EMLogs
    /\ act = EMActors([pc |-> "done", clk |-> 0, runs |-> 1, log |-> <<>>, cycles |-> 0])

NextEM ==
    \/ \E k \in 1..Len(EMIn) : SenderContext_run(k)
    \/ EagerMerge_poll
    \/ EagerMerge_drain

SpecEM == InitEM /\ [][NextEM]_vars

\* The same graph as the test configures it (input_rank 2, one matrix per
\* sender), run twice.
InitEM2 ==
    /\ InitEM
    /\ cfg.input_rank = 2
    /\ \A k \in 1..Len(EMIn) : cfg.senders[k].num_matrices = 1

\* The second run of the same program.
RunAgain ==
    /\ Finished
    /\ act.sim.runs = 1
    /\ chan' = EMChans
    /\ hist' = EMLogs
    /\ act' = EMActors([pc |-> "done", clk |-> 0, runs |-> 2, log |-> hist, cycles |-> Elapsed])
    /\ UNCHANGED cfg

NextEM2 == NextEM \/ RunAgain

SpecEM2 == InitEM2 /\ [][NextEM2]_vars

C9_LowestIndexOnTie ==
    \A n \in 1..Len(act.em.picks) :
        LET pick == act.em.picks[n]
            held == {j \in 1..Len(EMIn) : pick.heads[j] # -1}
            least == {j \in held : \A i \in held : pick.heads[j] <= pick.heads[i]}
        IN  Cardinality(least) >= 2 => \A j \in least : pick.idx + 1 <= j

\* The number of complete input_rank-bounded groups among the elements es:
\* a group is complete at a stop of level input_rank or above (a Val has
\* level 0).
RECURSIVE CompleteGroups(_)
CompleteGroups(es) ==
    IF es = <<>> THEN 0
    ELSE (IF Head(es).s >= cfg.input_rank THEN 1 ELSE 0) + CompleteGroups(Tail(es))

\* The group (counted from 1) the n-th element of es belongs to.
GroupOf(es, n) == 1 + CompleteGroups(SubSeq(es, 1, n - 1))

\* C18: EagerMerge emits exactly one selector element per complete
\* input_rank-bounded group written to its output (the selector of a group
\* goes out before the group's elements, so while a group is being drained
\* there is one selector more than there are complete groups), and the k-th
\* selector element names the input from which the k-th output group was
\* drained (the payload of an element is its sender, input index + 1).
C18_SelectorPerGroup ==
    cfg.graph = "EM" =>
        LET out == Elems(hist.out)
            sel == Elems(hist.sel)
            n == CompleteGroups(out)
        IN  /\ n <= Len(sel) /\ Len(sel) <= n + 1
            /\ act.em.pc = "poll" => Len(sel) = n
            /\ \A m \in 1..Len(out) :
                  /\ GroupOf(out, m) <= Len(sel)
                  /\ sel[GroupOf(out, m)].v = from_sel_vec(<<out[m].v - 1>>, Len(EMIn))

\* EagerMerge has finished after writing two complete groups drained from
\* two different inputs.
C18_Witness ==
    /\ cfg.graph = "EM"
    /\ act.em.pc = "done"
    /\ CompleteGroups(Elems(hist.out)) = 2
    /\ Len(hist.sel) = 2
    /\ hist.sel[1][2].v # hist.sel[2][2].v

\* C5: for a fixed graph, inputs and configuration, two runs (two
\* interleavings of the actors' steps) leave the same (timestamp, element)
\* sequence on every channel and the same elapsed cycle count.
C5_Deterministic ==
    (cfg.graph = "EM" /\ act.sim.runs = 2 /\ Finished)
        => (hist = act.sim.log /\ Elapsed = act.sim.cycles)

(***************************************************************************)
(* FlatPartition (operator/partition.rs): reads "in" and the selector      *)
(* channel "psel", writes the expert channels.  Tiles and selectors are    *)
(* not marked read_from_mu and write_back_mu is off, so the load and       *)
(* write-back cycles are 0.                                                *)
(***************************************************************************)
Experts == <<"e0", "e1">>

\* A generator that has sent its whole stream, one element per cycle, and
\* returned.
GenAll(a, c, stream) ==
    /\ act[a].pc = "run"
    /\ chan' = Drop(EnqAll(chan, c, Stamp(stream, 0)), {c})
    /\ hist' = [hist EXCEPT ![c] = Stamp(stream, 0)]
    /\ act' = [act EXCEPT ![a].pc = "done", ![a].clk = Len(stream)]
    /\ UNCHANGED cfg

\* Every index (from 0) of the vector, whatever its bits.
to_sel_vec_all(sel) == [i \in 1..Len(sel) |-> i - 1]

\* MultiHotN::to_sel_vec: the indices (from 0) of the true bits, ascending.
to_sel_vec(sel) ==
    SelectSeq([i \in 1..Len(sel) |-> i - 1], LAMBDA i : sel[i + 1])

\* handle_write_cycles: the largest switch cycle among the selected experts.
handle_write_cycles(select_vec) ==
    MaxOf({cfg.switch_cycles[select_vec[i] + 1] : i \in 1..Len(select_vec)})

\* The channels behind FlatPartition's in_stream and sel_stream: EagerMerge's
\* output and selector in graph MP, the generators' channels otherwise.
in_stream == IF cfg.graph = "MP" THEN "out" ELSE "in"

sel_stream == IF cfg.graph = "MP" THEN "sel" ELSE "psel"

\* FlatPartition::run: the next selector element, or the return.
FlatPartition_sel ==
    /\ act.fp.pc = "sel"
    /\ LET p == peek(sel_stream)
       IN  \/ /\ p.r = "Something"
              /\ LET clk == Max(act.fp.clk, p.t)
                 IN  /\ chan' = Deq(chan, sel_stream, clk)
                     /\ act' = [act EXCEPT !.fp =
                          [@ EXCEPT !.pc = "in", !.clk = clk,
                                    !.select_vec = to_sel_vec(p.e.v),
                                    !.expected = IF p.e.k = "Val" THEN -1
                                                 ELSE p.e.s + cfg.rank]]
           \/ /\ p.r = "Closed"
              /\ chan' = Drop(chan, {Experts[i] : i \in 1..Len(Experts)})
              /\ act' = [act EXCEPT !.fp.pc = "done"]
    /\ UNCHANGED <<cfg, hist>>

\* The stop level FlatPartition writes for an input element of level s
\* (0: a Val) under the expected stop level (-1: none).
output_stop_level(s, expected) ==
    IF s = 0 THEN 0 ELSE IF expected # -1 THEN cfg.rank ELSE s

\* process_input_stream of FlatPartition, one input element: validate,
\* dequeue, charge the write cycles; the enqueues follow.
FlatPartition_in ==
    /\ act.fp.pc = "in"
    /\ LET p == peek(in_stream)
           me == act.fp
           e == p.e
           bad == /\ e.k = "ValStop"
                  /\ \/ me.expected # -1 /\ me.expected # e.s
                     \/ me.expected = -1 /\ e.s > cfg.rank
           brk == IF e.k = "Val" THEN cfg.rank = 0
                  ELSE e.s = cfg.rank \/ me.expected = e.s
           lev == output_stop_level(e.s, me.expected)
           clk == Max(me.clk, p.t)
       IN  \/ /\ p.r = "Something"
              /\ ~bad
              /\ chan' = Deq(chan, in_stream, clk)
              /\ act' = [act EXCEPT !.fp =
                   [@ EXCEPT !.pc = IF me.select_vec # <<>> THEN "enq"
                                    ELSE IF brk THEN "sel" ELSE "in",
                             !.clk = clk + handle_write_cycles(me.select_vec),
                             !.pend = IF lev = 0 THEN Val(e.v) ELSE ValStop(e.v, lev),
                             !.j = 1, !.brk = brk]]
           \/ /\ p.r = "Closed" \/ (p.r = "Something" /\ bad)
              /\ chan' = Drop(chan, {Experts[i] : i \in 1..Len(Experts)})
              /\ act' = [act EXCEPT !.fp.pc = "fail"]
    /\ UNCHANGED <<cfg, hist>>

\* enqueue_to_experts: the enqueue to the j-th selected expert, which waits
\* while that channel is full; once the receiver is gone the enqueue returns
\* an error and the unwrap panics.
FlatPartition_enq ==
    /\ act.fp.pc = "enq"
    /\ LET me == act.fp
           c == Experts[me.select_vec[me.j] + 1]
           o == <<me.clk, me.pend>>
       IN  \/ /\ act.fr.pc \notin {"done", "fail"}
              /\ HasRoom(c)
              /\ chan' = EnqAll(chan, c, <<o>>)
              /\ hist' = [hist EXCEPT ![c] = Append(@, o)]
              /\ act' = [act EXCEPT !.fp =
                   [@ EXCEPT !.clk = EnqClk(c, me.clk),
                             !.j = @ + 1,
                             !.pc = IF me.j < Len(me.select_vec) THEN "enq"
                                    ELSE IF me.brk THEN "sel" ELSE "in"]]
           \/ /\ act.fr.pc \in {"done", "fail"}
              /\ chan' = Drop(chan, {Experts[i] : i \in 1..Len(Experts)})
              /\ hist' = hist
              /\ act' = [act EXCEPT !.fp.pc = "fail"]
    /\ UNCHANGED cfg

(***************************************************************************)
(* FlatReassemble (operator/reassemble.rs): reads the expert channels and  *)
(* the selector channel "rsel", writes "out".                              *)
(***************************************************************************)
\* FlatReassemble::run: the next selector element, or the return.  An empty
\* selection leaves peek_all_streams with no result, which panics.
FlatReassemble_sel ==
    /\ act.fr.pc = "sel"
    /\ LET p == peek("rsel")
           sv == to_sel_vec(p.e.v)
       IN  \/ /\ p.r = "Something"
              /\ LET clk == Max(act.fr.clk, p.t)
                 IN  /\ chan' = IF sv = <<>> THEN Drop(Deq(chan, "rsel", clk), {"out"})
                                ELSE Deq(chan, "rsel", clk)
                     /\ act' = [act EXCEPT !.fr =
                          [@ EXCEPT !.pc = IF sv = <<>> THEN "fail" ELSE "peek",
                                    !.clk = clk,
                                    !.select_vec = sv,
                                    !.add = IF p.e.k = "Val" THEN 0 ELSE p.e.s,
                                    !.i = 1,
                                    !.arrive = [i \in 1..Len(sv) |-> -1]]]
           \/ /\ p.r = "Closed"
              /\ chan' = Drop(chan, {"out"})
              /\ act' = [act EXCEPT !.fr.pc = "done"]
    /\ UNCHANGED <<cfg, hist>>

\* The positions of select_vec in ascending order, whatever the arrival
\* times.
sorted_indices_by_position(arrive, left) == [i \in 1..Cardinality(left) |-> i]

\* sorted_indices: the positions of select_vec ordered by arrival time, the
\* sort being stable.
RECURSIVE sorted_indices(_, _)
sorted_indices(arrive, left) ==
    IF left = {} THEN <<>>
    ELSE LET i == CHOOSE x \in left : \A y \in left :
                      arrive[x] < arrive[y] \/ (arrive[x] = arrive[y] /\ x <= y)
         IN  <<i>> \o sorted_indices(arrive, left \ {i})

\* peek_all_streams, one in_streams[idx].peek(): Something records the
\* arrival time, Closed panics; after the last position of a round either
\* another round one cycle later or the sorted order of the wave.
FlatReassemble_peek ==
    /\ act.fr.pc = "peek"
    /\ LET me == act.fr
           n == Len(me.select_vec)
           p == peek_at(Experts[me.select_vec[me.i] + 1], me.clk)
           seen == me.arrive[me.i] # -1
           arrive == IF ~seen /\ p.r = "Something"
                     THEN [me.arrive EXCEPT ![me.i] = p.t] ELSE me.arrive
           all == \A i \in 1..n : arrive[i] # -1
       IN  /\ seen \/ p.r # "Wait"
           /\ IF ~seen /\ p.r = "Closed"
              THEN /\ chan' = Drop(chan, {"out"})
                   /\ act' = [act EXCEPT !.fr.pc = "fail"]
              ELSE /\ chan' = chan
                   /\ act' = [act EXCEPT !.fr =
                        IF me.i < n THEN [@ EXCEPT !.arrive = arrive, !.i = @ + 1]
                        ELSE IF all
                        THEN [@ EXCEPT !.arrive = arrive, !.pc = "drain", !.k = 1,
                                       !.order = sorted_indices(arrive, 1..n)]
                        ELSE [@ EXCEPT !.arrive = arrive, !.i = 1, !.clk = @ + 1]]
    /\ UNCHANGED <<cfg, hist>>

\* An element written as it was read, no stop raised.
ReassembleKeep(e, is_last_selected, additional_rank) == e

\* The element FlatReassemble writes for the input element e: the end of
\* the last selected expert's group is raised by 1 + additional_rank.
ReassembleElem(e, is_last_selected, additional_rank) ==
    IF cfg.rank = 0
    THEN IF is_last_selected THEN ValStop(e.v, e.s + additional_rank + 1) ELSE Val(e.v)
    ELSE IF e.k = "ValStop" /\ is_last_selected /\ e.s >= cfg.rank
         THEN ValStop(e.v, e.s + additional_rank + 1)
         ELSE e

\* process_input_stream of FlatReassemble, one element of the expert whose
\* turn it is: peek_next, advance to arrival + switch cycles, dequeue, emit.
FlatReassemble_drain ==
    /\ act.fr.pc = "drain"
    /\ LET me == act.fr
           i == me.order[me.k]
           stream_idx == me.select_vec[i]
           c == Experts[stream_idx + 1]
           p == peek(c)
           is_last_selected == me.k = Len(me.order)
           clk == Max(Max(me.clk, p.t), me.arrive[i] + cfg.switch_cycles[stream_idx + 1])
           o == <<clk, ReassembleElem(p.e, is_last_selected, me.add)>>
           brk == IF p.e.k = "Val" THEN cfg.rank = 0 ELSE p.e.s >= cfg.rank
       IN  \/ /\ p.r = "Something"
              /\ chan' = Deq(EnqAll(chan, "out", <<o>>), c, clk)
              /\ hist' = [hist EXCEPT !.out = Append(@, o)]
              /\ act' = [act EXCEPT !.fr =
                   IF ~brk THEN [@ EXCEPT !.clk = clk]
                   ELSE IF is_last_selected THEN [@ EXCEPT !.clk = clk, !.pc = "sel"]
                   ELSE [@ EXCEPT !.clk = clk, !.k = @ + 1]]
           \/ /\ p.r = "Closed"
              /\ chan' = Drop(chan, {"out"})
              /\ hist' = hist
              /\ act' = [act EXCEPT !.fr.pc = "fail"]
    /\ UNCHANGED cfg

(***************************************************************************)
(* Graph PR: generators -> FlatPartition -> expert channels ->             *)
(* FlatReassemble -> "out", both driven by the same selector stream.  The  *)
(* expert channels are bounded(depth) as ChannelMap builds them; depth 0   *)
(* stands for the unbounded channels of the unit tests.                    *)
(***************************************************************************)
\* The selector elements: a multi-hot vector over the experts, as a Val or,
\* when it closes selector dimensions, a ValStop.
Selectors ==
    {Val(b) : b \in [1..Len(Experts) -> BOOLEAN]}
        \cup {ValStop(b, 1) : b \in [1..Len(Experts) -> BOOLEAN]}

InitPR ==
    /\ cfg \in [graph : {"PR"},
                rank : 0..(MaxRank - 1),
                depth : 0..MaxCap,
                switch_cycles : {<<1, 1>>},
                input : {StreamOfLevels(l) : l \in SeqsOf(0..MaxRank, 1, MaxLen)},
                sels : SeqsOf(Selectors, 1, MaxSels)]
    /\ chan = [in |-> NewChan(0), psel |-> NewChan(0), rsel |-> NewChan(0),
               e0 |-> NewChan(cfg.depth), e1 |-> NewChan(cfg.depth), out |-> NewChan(0)]
    /\ hist = [in |-> <<>>, psel |-> <<>>, rsel |-> <<>>, e0 |-> <<>>, e1 |-> <<>>,
               out |-> <<>>]
    /\ act = [gi |-> [pc |-> "run", clk |-> 0],
              gp |-> [pc |-> "run", clk |-> 0],
              gr |-> [pc |-> "run", clk |-> 0],
              fp |-> [pc |-> "sel", clk |-> 0, select_vec |-> <<>>, expected |-> -1,
                      pend |-> Val(0), j |-> 1, brk |-> FALSE],
              fr |-> [pc |-> "sel", clk |-> 0, select_vec |-> <<>>, add |-> 0, i |-> 1,
                      arrive |-> <<>>, order |-> <<>>, k |-> 1]]

NextPR ==
    \/ GenAll("gi", "in", cfg.input)
    \/ GenAll("gp", "psel", cfg.sels)
    \/ GenAll("gr", "rsel", cfg.sels)
    \/ FlatPartition_sel
    \/ FlatPartition_in
    \/ FlatPartition_enq
    \/ FlatReassemble_sel
    \/ FlatReassemble_peek
    \/ FlatReassemble_drain

SpecPR == InitPR /\ [][NextPR]_vars

(***************************************************************************)
(* Claims about FlatPartition followed by FlatReassemble.                  *)
(***************************************************************************)
IsPrefix(a, b) == Len(a) <= Len(b) /\ SubSeq(b, 1, Len(a)) = a

\* The element e ending a copy of a group at stop level l (0: as a Val).
EndAt(e, l) == IF l = 0 THEN Val(e.v) ELSE ValStop(e.v, l)

\* The first element of input that ends a group of rank r (a stop of level
\* r or more, any element when r = 0), or Len(input) + 1.
GroupEnd(input) ==
    LET stops == {i \in 1..Len(input) : input[i].s >= cfg.rank}
    IN  IF stops = {} THEN Len(input) + 1
        ELSE CHOOSE i \in stops : \A j \in stops : i <= j

\* The input is aligned with the selectors: every group that a selector of
\* level s (0 for a Val) meets ends at level r + s.
RECURSIVE Aligned(_, _)
Aligned(sels, input) ==
    \/ sels = <<>>
    \/ GroupEnd(input) > Len(input)
    \/ /\ input[GroupEnd(input)].s = cfg.rank + Head(sels).s
       /\ Aligned(Tail(sels), SubSeq(input, GroupEnd(input) + 1, Len(input)))

\* The stream the two operators are to produce from the selectors sels and
\* an aligned input: selector by selector, the input group once per
\* selected expert; every copy but the last ends at level r and the last at
\* level r + s + 1.  The stream stops with a group that has no end.
RECURSIVE Reassembled(_, _)
Reassembled(sels, input) ==
    IF sels = <<>> THEN <<>>
    ELSE LET r == cfg.rank
             s == Head(sels).s
             k == Len(to_sel_vec(Head(sels).v))
             n == GroupEnd(input)
             inner == SubSeq(input, 1, n - 1)
         IN  IF n <= Len(input)
             THEN Concat([c \in 1..k |->
                          Append(inner, EndAt(input[n], IF c < k THEN r ELSE r + s + 1))])
                      \o Reassembled(Tail(sels), SubSeq(input, n + 1, Len(input)))
             ELSE Concat([c \in 1..k |-> inner])

\* C3 as stated: FlatPartition into the expert channels and FlatReassemble
\* out of them, under the same selector stream, give back the input stream
\* element for element.
C3_RoundTrip ==
    (cfg.graph = "PR" /\ Finished /\ ~Failed) => Elems(hist.out) = cfg.input

\* C3 as amended: for an input aligned with the selectors the output is,
\* selector by selector, the input group once per selected expert with its
\* values and inner stops unchanged, the last copy ending one level above
\* the input's group end and the others at the partition rank; it is never
\* the input itself, and a run that stops early has written a prefix of it.
C3_RoundTripRaised ==
    (cfg.graph = "PR" /\ Aligned(cfg.sels, cfg.input)) =>
        /\ IsPrefix(Elems(hist.out), Reassembled(cfg.sels, cfg.input))
        /\ (Finished /\ ~Failed) =>
               /\ Elems(hist.out) = Reassembled(cfg.sels, cfg.input)
               /\ Elems(hist.out) # cfg.input

\* A run with two selectors, the first of them multi-hot, has finished
\* without a failure and written both groups.
C3_Witness ==
    /\ cfg.graph = "PR" /\ Finished /\ ~Failed
    /\ Len(cfg.sels) = 2
    /\ Len(to_sel_vec(cfg.sels[1].v)) = 2
    /\ Aligned(cfg.sels, cfg.input)
    /\ Len(hist.out) >= 3
    /\ Elems(hist.out) = Reassembled(cfg.sels, cfg.input)

\* C7: in a graph whose sources are finite every actor returns or fails;
\* here, no state is reached where some actor of the FlatPartition /
\* FlatReassemble graph has not returned and none can take a step.
C7_Terminates ==
    cfg.graph = "PR" => (Finished \/ ENABLED NextPR)

(***************************************************************************)
(* Operators that stamp their output ahead of their clock: RepeatStatic    *)
(* (operator/repeat.rs), Parallelize (operator/parallelize.rs) and         *)
(* CacheReadAddrGen (operator/flatmap.rs).  Graph T runs one of them       *)
(* (cfg.op) between generators and one consumer per output channel.        *)
(***************************************************************************)
Outs == <<"o0", "o1">>

OpOuts == {"out"} \cup {Outs[i] : i \in 1..Len(Outs)}

\* The operator's return or panic: its senders are dropped.
OpEnds(pc) ==
    /\ chan' = Drop(chan, OpOuts)
    /\ hist' = hist
    /\ act' = [act EXCEPT !.op.pc = pc]

\* RepeatStatic::run, the peek_next of an iteration.
RepeatStatic_peek ==
    /\ cfg.op = "RepeatStatic" /\ act.op.pc = "run"
    /\ LET p == peek("in")
       IN  \/ /\ p.r = "Something"
              /\ chan' = chan /\ hist' = hist
              /\ act' = [act EXCEPT !.op.pc = "emit", !.op.clk = Max(@, p.t),
                                    !.op.i = 0, !.op.cur = p.e]
           \/ /\ p.r = "Closed"
              /\ OpEnds("done")
    /\ UNCHANGED cfg

\* RepeatStatic::run, one enqueue: repeat_factor - 1 copies as Val stamped
\* tick + i, then the copy that carries the stop, then incr_cycles and the
\* dequeue of the input element.
RepeatStatic_enq ==
    /\ cfg.op = "RepeatStatic" /\ act.op.pc = "emit"
    /\ LET me == act.op
           last == me.i = cfg.repeat_factor - 1
           o == <<me.clk + me.i,
                  IF last THEN ValStop(me.cur.v, me.cur.s + 1) ELSE Val(me.cur.v)>>
           next(clk) == IF last
                        THEN [me EXCEPT !.clk = clk + cfg.repeat_factor, !.pc = "run"]
                        ELSE [me EXCEPT !.clk = clk, !.i = @ + 1]
       IN  /\ HasRoom("out")
           /\ chan' = IF last
                      THEN Deq(EnqAll(chan, "out", <<o>>), "in",
                               EnqClk("out", me.clk) + cfg.repeat_factor)
                      ELSE EnqAll(chan, "out", <<o>>)
           /\ hist' = [hist EXCEPT !.out = Append(@, o)]
           /\ act' = [act EXCEPT !.op = next(EnqClk("out", me.clk))]
    /\ UNCHANGED cfg

\* Parallelize::run, the dequeue of an input element.
Parallelize_deq ==
    /\ cfg.op = "Parallelize" /\ act.op.pc = "run"
    /\ LET p == peek("in")
       IN  \/ /\ p.r = "Something"
              /\ chan' = Deq(chan, "in", Max(act.op.clk, p.t))
              /\ hist' = hist
              /\ act' = [act EXCEPT !.op.pc = "emit", !.op.clk = Max(@, p.t),
                                    !.op.cur = p.e]
           \/ /\ p.r = "Closed"
              /\ OpEnds("done")
    /\ UNCHANGED cfg

\* A distribution that stays on the output it is on.
next_stream_same(i) == i

\* The output after output i: `for i in 0..par_factor` inside the outer loop.
next_stream(i) == (i + 1) % Len(Outs)

\* Parallelize::run, the enqueue on output i stamped tick + switch_cycles[i];
\* the end of a group moves on to the next output, a stop above the
\* partition rank panics.
Parallelize_enq ==
    /\ cfg.op = "Parallelize" /\ act.op.pc = "emit"
    /\ LET me == act.op
           o == <<me.clk + cfg.switch_cycles[me.i + 1], me.cur>>
           brk == IF me.cur.k = "Val" THEN cfg.rank = 0 ELSE me.cur.s = cfg.rank
           bad == me.cur.k = "ValStop" /\ me.cur.s > cfg.rank
           next(clk) == [me EXCEPT !.clk = clk,
                                   !.pc = IF bad THEN "fail" ELSE "run",
                                   !.i = IF brk THEN next_stream(@) ELSE @]
       IN  /\ HasRoom(Outs[me.i + 1])
           /\ chan' = IF bad THEN Drop(EnqAll(chan, Outs[me.i + 1], <<o>>), OpOuts)
                      ELSE EnqAll(chan, Outs[me.i + 1], <<o>>)
           /\ hist' = [hist EXCEPT ![Outs[me.i + 1]] = Append(@, o)]
           /\ act' = [act EXCEPT !.op = next(EnqClk(Outs[me.i + 1], me.clk))]
    /\ UNCHANGED cfg

\* CacheReadAddrGen::run, the dequeue of idx_stream.
CacheReadAddrGen_idx ==
    /\ cfg.op = "CacheReadAddrGen" /\ act.op.pc = "run"
    /\ LET p == peek("in")
       IN  /\ p.r \in {"Something", "Closed"}
           /\ chan' = IF p.r = "Something" THEN Deq(chan, "in", Max(act.op.clk, p.t))
                      ELSE chan
           /\ act' = [act EXCEPT !.op.pc = "len",
                                 !.op.clk = IF p.r = "Something" THEN Max(@, p.t) ELSE @,
                                 !.op.cur = p.e,
                                 !.op.ok = p.r = "Something"]
    /\ UNCHANGED <<cfg, hist>>

\* CacheReadAddrGen::run, the dequeue of seq_len_stream and the match:
\* both closed returns, a Val with a Val or a ValStop with a ValStop of the
\* same level starts a burst at start_time = tick, anything else panics.
CacheReadAddrGen_len ==
    /\ cfg.op = "CacheReadAddrGen" /\ act.op.pc = "len"
    /\ LET p == peek("len")
           me == act.op
           clk == IF p.r = "Something" THEN Max(me.clk, p.t) ELSE me.clk
       IN  /\ p.r \in {"Something", "Closed"}
           /\ IF p.r = "Something" /\ me.ok /\ p.e.k = me.cur.k /\ p.e.s = me.cur.s
              THEN /\ chan' = Deq(chan, "len", clk)
                   /\ hist' = hist
                   /\ act' = [act EXCEPT !.op =
                        [me EXCEPT !.pc = "emit", !.clk = clk, !.start_time = clk,
                                   !.seq_len = p.e.v, !.i = 0]]
              ELSE OpEnds(IF p.r = "Closed" /\ ~me.ok THEN "done" ELSE "fail")
    /\ UNCHANGED cfg

\* CacheReadAddrGen::run, one enqueue of the burst: address i stamped
\* start_time + i, the last one with the stop; the clock is not advanced.
CacheReadAddrGen_enq ==
    /\ cfg.op = "CacheReadAddrGen" /\ act.op.pc = "emit"
    /\ LET me == act.op
           last == me.i = me.seq_len - 1
           addr == me.cur.v * cfg.offset_per_idx + me.i
           o == <<me.start_time + me.i,
                  IF last THEN ValStop(addr, me.cur.s + 1) ELSE Val(addr)>>
       IN  /\ HasRoom("out")
           /\ chan' = EnqAll(chan, "out", <<o>>)
           /\ hist' = [hist EXCEPT !.out = Append(@, o)]
           /\ act' = [act EXCEPT !.op =
                [me EXCEPT !.clk = EnqClk("out", me.clk), !.i = @ + 1,
                           !.pc = IF last THEN "run" ELSE "emit"]]
    /\ UNCHANGED cfg

\* The consumer of output channel c: dequeues until the channel is closed,
\* spending cfg.delay cycles on every element.
Consumer_run(a, c) ==
    /\ act[a].pc = "run"
    /\ LET p == peek(c)
       IN  \/ /\ p.r = "Something"
              /\ chan' = Deq(chan, c, Max(act[a].clk, p.t))
              /\ act' = [act EXCEPT ![a].clk = Max(@, p.t) + cfg.delay]
           \/ /\ p.r = "Closed"
              /\ chan' = chan
              /\ act' = [act EXCEPT ![a].pc = "done"]
    /\ UNCHANGED <<cfg, hist>>

\* The seq_len stream that goes with the index stream input: the same
\* shape, the lengths lens as values.
LenStream(input, lens) ==
    [i \in 1..Len(input) |-> [input[i] EXCEPT !.v = lens[i]]]

\* The operator under test with the parameters it reads: repeat_factor
\* (RepeatStatic), partition_rank (Parallelize), the seq_len stream and
\* offset_per_idx (CacheReadAddrGen).
TConfig(op, depth, delay, input, rank, rf, lens) ==
    [graph |-> "T", op |-> op, depth |-> depth, delay |-> delay,
     switch_cycles |-> <<1, 2>>, input |-> input, rank |-> rank,
     repeat_factor |-> rf,
     lens |-> IF op = "CacheReadAddrGen" THEN LenStream(input, lens) ELSE <<>>,
     offset_per_idx |-> MaxLen]

InitT ==
    /\ \E depth \in 0..MaxCap, delay \in {0, 1}, l \in SeqsOf(0..1, 1, MaxLen) :
          \/ \E rf \in 1..MaxRepeat :
                cfg = TConfig("RepeatStatic", depth, delay, StreamOfLevels(l), 0, rf, <<>>)
          \/ \E rank \in 0..1 :
                cfg = TConfig("Parallelize", depth, delay, StreamOfLevels(l), rank, 1, <<>>)
          \/ \E lens \in [1..Len(l) -> 1..MaxLen] :
                cfg = TConfig("CacheReadAddrGen", depth, delay, StreamOfLevels(l), 0, 1, lens)
    /\ chan = [in |-> NewChan(0), len |-> NewChan(0), out |-> NewChan(cfg.depth),
               o0 |-> NewChan(cfg.depth), o1 |-> NewChan(cfg.depth)]
    /\ hist = [in |-> <<>>, len |-> <<>>, out |-> <<>>, o0 |-> <<>>, o1 |-> <<>>]
    /\ act = [gi |-> [pc |-> "run", clk |-> 0],
              gl |-> [pc |-> "run", clk |-> 0],
              op |-> [pc |-> "run", clk |-> 0, i |-> 0, cur |-> Val(0), ok |-> FALSE,
                      start_time |-> 0, seq_len |-> 0],
              k |-> [pc |-> "run", clk |-> 0],
              k0 |-> [pc |-> "run", clk |-> 0],
              k1 |-> [pc |-> "run", clk |-> 0]]

NextT ==
    \/ GenAll("gi", "in", cfg.input)
    \/ GenAll("gl", "len", cfg.lens)
    \/ RepeatStatic_peek
    \/ RepeatStatic_enq
    \/ Parallelize_deq
    \/ Parallelize_enq
    \/ CacheReadAddrGen_idx
    \/ CacheReadAddrGen_len
    \/ CacheReadAddrGen_enq
    \/ Consumer_run("k", "out")
    \/ Consumer_run("k0", "o0")
    \/ Consumer_run("k1", "o1")

SpecT == InitT /\ [][NextT]_vars

\* The timestamps enqueued on channel c so far are non-decreasing.
NonDecreasing(c) ==
    \A i \in 1..(Len(hist[c]) - 1) : hist[c][i][1] <= hist[c][i + 1][1]

\* C8: on every channel the timestamps of successively enqueued elements
\* are non-decreasing, whichever operator writes it and whatever its input.
C8_SendTimeNonDecreasing ==
    cfg.graph = "T" => \A c \in DOMAIN hist : NonDecreasing(c)

(***************************************************************************)
(* Flatten (operator/flatten.rs): merges the stop levels min_rank + 1 ..   *)
(* max_rank into min_rank.  It reads the channel cfg.src and writes "flat".*)
(***************************************************************************)
\* A stop level above max_rank lowered by max_rank only.
new_rank_by_max(min_rank, max_rank, s) ==
    IF s <= min_rank THEN s
    ELSE IF min_rank < s /\ s <= max_rank THEN min_rank
    ELSE s - max_rank

\* The stop level Flatten computes for an input ValStop(x, s).
new_rank(min_rank, max_rank, s) ==
    IF s <= min_rank THEN s
    ELSE IF min_rank < s /\ s <= max_rank THEN min_rank
    ELSE s - (max_rank - min_rank)

\* An element passed on as it came.
FlattenElemKeep(e, min_rank, max_rank) == e

\* What Flatten emits for one input element: a new rank of 0 leaves as Val.
FlattenElem(e, min_rank, max_rank) ==
    IF e.k = "Val" THEN Val(e.v)
    ELSE IF new_rank(min_rank, max_rank, e.s) = 0 THEN Val(e.v)
    ELSE ValStop(e.v, new_rank(min_rank, max_rank, e.s))

\* One iteration of Flatten::run: dequeue, enqueue at the current tick; a
\* closed input makes it return.
Flatten_run ==
    /\ act.fl.pc = "run"
    /\ LET p == peek(cfg.src)
       IN  \/ /\ p.r = "Something"
              /\ LET clk == Max(act.fl.clk, p.t)
                     o == <<clk, FlattenElem(p.e, cfg.min_rank, cfg.max_rank)>>
                 IN  /\ chan' = Deq(EnqAll(chan, "flat", <<o>>), cfg.src, clk)
                     /\ hist' = [hist EXCEPT !.flat = Append(@, o)]
                     /\ act' = [act EXCEPT !.fl.clk = clk]
           \/ /\ p.r = "Closed"
              /\ chan' = Drop(chan, {"flat"})
              /\ hist' = hist
              /\ act' = [act EXCEPT !.fl.pc = "done"]
    /\ UNCHANGED cfg

(***************************************************************************)
(* Graph Flatten: gen -> "in" -> Flatten -> "flat" (test flatten_1_3).     *)
(* Flatten::new asserts min_rank < max_rank.                               *)
(***************************************************************************)
InitFlatten ==
    /\ \E min_rank \in 0..MaxRank : \E max_rank \in (min_rank + 1)..(MaxRank + 1) :
          \E l \in SeqsOf(0..(MaxRank + 2), 1, MaxLen) :
             cfg = [graph |-> "Flatten", src |-> "in", min_rank |-> min_rank,
                    max_rank |-> max_rank, input |-> StreamOfLevels(l)]
    /\ chan = [in |-> NewChan(0), flat |-> NewChan(0)]
    /\ hist = [in |-> <<>>, flat |-> <<>>]
    /\ act = [gen |-> [pc |-> "run", clk |-> 0, i |-> 1],
              fl |-> [pc |-> "run", clk |-> 0]]

GenFlatten == GenStep("gen", "in", cfg.input)

NextFlatten == GenFlatten \/ Flatten_run

SpecFlatten == InitFlatten /\ [][NextFlatten]_vars

\* C11: Flatten(min, max) writes, for the i-th input element, the same
\* payload; a Val stays a Val; a stop level s becomes s if s <= min, min if
\* min < s <= max and s - (max - min) if s > max, and a resulting level of 0
\* is written as Val.
C11_Flatten ==
    \A i \in 1..Len(hist.flat) :
        LET e == cfg.input[i]
            o == hist.flat[i][2]
            lev == IF e.s <= cfg.min_rank THEN e.s
                   ELSE IF e.s <= cfg.max_rank THEN cfg.min_rank
                   ELSE e.s - (cfg.max_rank - cfg.min_rank)
        IN  /\ o.v = e.v
            /\ e.k = "Val" => o = Val(e.v)
            /\ e.k = "ValStop" => o = (IF lev = 0 THEN Val(e.v) ELSE ValStop(e.v, lev))

\* Flatten, with min_rank above 0, has written stops that were below
\* min_rank, between the two ranks and above max_rank.
C11_Witness ==
    /\ cfg.graph = "Flatten" /\ act.fl.pc = "done"
    /\    /\ cfg.min_rank > 0
          /\ \E i, j, k \in 1..Len(hist.flat) :
                /\ cfg.input[i].k = "ValStop" /\ cfg.input[i].s <= cfg.min_rank
                /\ cfg.input[j].s > cfg.min_rank /\ cfg.input[j].s <= cfg.max_rank
                /\ cfg.input[k].s > cfg.max_rank
                /\ hist.flat[k][2].s = cfg.input[k].s - (cfg.max_rank - cfg.min_rank)

(***************************************************************************)
(* Graph PF: gen -> "in" -> Promote(a) -> "out" -> Flatten(a, a + 1) ->    *)
(* "flat".                                                                 *)
(***************************************************************************)
InitPF ==
    /\ \E a \in 0..MaxRank : \E l \in SeqsOf(0..(MaxRank + 1), 1, MaxLen) :
          cfg = [graph |-> "PF", src |-> "out", promote_rank |-> a, min_rank |-> a,
                 max_rank |-> a + 1, input |-> StreamOfLevels(l)]
    /\ chan = [in |-> NewChan(0), out |-> NewChan(0), flat |-> NewChan(0)]
    /\ hist = [in |-> <<>>, out |-> <<>>, flat |-> <<>>]
    /\ act = [gen |-> [pc |-> "run", clk |-> 0, i |-> 1],
              pro |-> [pc |-> "run", clk |-> 0],
              fl |-> [pc |-> "run", clk |-> 0]]

NextPF == GenStep("gen", "in", cfg.input) \/ Promote_run \/ Flatten_run

SpecPF == InitPF /\ [][NextPF]_vars

\* C12: Promote(a) followed by Flatten(a, a + 1) writes at every position
\* the kind and stop level (and payload) of the input element.
C12_PromoteFlatten ==
    cfg.graph = "PF" =>
        \A i \in 1..Len(hist.flat) : hist.flat[i][2] = cfg.input[i]

\* The pair has run to the end on an input with a Val and with stops below,
\* at and above a, and Promote did change some of them on the way.
C12_Witness ==
    /\ cfg.graph = "PF" /\ act.fl.pc = "done"
    /\ Len(hist.flat) = Len(cfg.input)
    /\ \E i \in 1..Len(cfg.input) : cfg.input[i].s >= cfg.promote_rank
                                    /\ hist.out[i][2] # cfg.input[i]
    /\ \E i \in 1..Len(cfg.input) : cfg.input[i].k = "ValStop"
                                    /\ cfg.input[i].s < cfg.promote_rank
    /\ \E i \in 1..Len(cfg.input) : cfg.input[i].s > cfg.promote_rank

(***************************************************************************)
(* Claims about FlatPartition in graph PR.                                 *)
(***************************************************************************)
\* The number of input elements FlatPartition has dequeued.
Consumed == Len(hist.in) - Len(chan.in.q)

\* The number of selector elements FlatPartition has dequeued.
Selected == Len(hist.psel) - Len(chan.psel.q)

\* C13: FlatPartition ends a group only on an input element whose stop
\* level is the selector's level plus partition_rank (partition_rank alone
\* for a Val selector); any other group end makes it fail.
C13_GroupEndAgrees ==
    (cfg.graph = "PR" /\ act.fp.pc \in {"enq", "sel"} /\ act.fp.brk) =>
        cfg.input[Consumed].s = cfg.rank + cfg.sels[Selected].s

(***************************************************************************)
(* Graph FP: generators -> FlatPartition -> unbounded expert channels      *)
(* (tests flat_partition_2d_multi_hot_rank_1, flat_partition_1d_multi_hot_ *)
(* rank_0).  act.fr stands for the context that holds the expert           *)
(* receivers, which outlives FlatPartition.                                *)
(***************************************************************************)
InitFP ==
    /\ \E rank \in 0..MaxRank : \E l \in SeqsOf(0..(MaxRank + 1), 1, MaxLen) :
          \E sels \in SeqsOf(Selectors, 1, MaxSels) :
             cfg = [graph |-> "FP", rank |-> rank, depth |-> 0,
                    switch_cycles |-> <<1, 1>>, input |-> StreamOfLevels(l),
                    sels |-> sels]
    /\ chan = [in |-> NewChan(0), psel |-> NewChan(0),
               e0 |-> NewChan(0), e1 |-> NewChan(0)]
    /\ hist = [in |-> <<>>, psel |-> <<>>, e0 |-> <<>>, e1 |-> <<>>]
    /\ act = [gi |-> [pc |-> "run", clk |-> 0],
              gp |-> [pc |-> "run", clk |-> 0],
              fp |-> [pc |-> "sel", clk |-> 0, select_vec |-> <<>>, expected |-> -1,
                      pend |-> Val(0), j |-> 1, brk |-> FALSE],
              fr |-> [pc |-> "run", clk |-> 0]]

NextFP ==
    \/ GenAll("gi", "in", cfg.input)
    \/ GenAll("gp", "psel", cfg.sels)
    \/ FlatPartition_sel
    \/ FlatPartition_in
    \/ FlatPartition_enq

SpecFP == InitFP /\ [][NextFP]_vars

\* What expert i (from 0) is to receive: for every selector that names it,
\* the input group with its inner elements unchanged and its last element at
\* level partition_rank (a Val when that is 0); of a group without an end,
\* the elements there are.
RECURSIVE ExpertStream(_, _, _)
ExpertStream(i, sels, input) ==
    IF sels = <<>> THEN <<>>
    ELSE LET n == GroupEnd(input)
             inner == SubSeq(input, 1, n - 1)
             mine == Head(sels).v[i + 1]
         IN  IF n <= Len(input)
             THEN (IF mine THEN Append(inner, EndAt(input[n], cfg.rank)) ELSE <<>>)
                      \o ExpertStream(i, Tail(sels), SubSeq(input, n + 1, Len(input)))
             ELSE IF mine THEN inner ELSE <<>>

\* C14: once FlatPartition has stopped on an input aligned with the
\* selectors, every expert has received, for each selector naming it, the
\* group's elements with the stop levels below partition_rank unchanged and
\* the group's last element at level partition_rank (Val when that is 0).
C14_ExpertGroups ==
    (cfg.graph = "FP" /\ Aligned(cfg.sels, cfg.input) /\ act.fp.pc \in {"done", "fail"}) =>
        \A i \in 1..Len(Experts) :
            Elems(hist[Experts[i]]) = ExpertStream(i - 1, cfg.sels, cfg.input)

\* The payloads of the first n elements of input that go to expert i (from
\* 0): an element goes to the experts whose bit is set in the selector it
\* is consumed under, and the selector changes after the element at which
\* FlatPartition ends the group.
RECURSIVE Routed(_, _, _, _)
Routed(i, sels, input, n) ==
    IF n = 0 \/ sels = <<>> \/ input = <<>> THEN <<>>
    ELSE LET e == Head(input)
             sel == Head(sels)
             ends == IF e.k = "Val" THEN cfg.rank = 0
                     ELSE e.s = cfg.rank \/ (sel.k = "ValStop" /\ e.s = sel.s + cfg.rank)
         IN  (IF sel.v[i + 1] THEN <<e.v>> ELSE <<>>)
                 \o Routed(i, IF ends THEN Tail(sels) ELSE sels, Tail(input), n - 1)

\* The payloads enqueued on channel c so far.
Payloads(c) == [n \in 1..Len(hist[c]) |-> hist[c][n][2].v]

\* C15: every input element FlatPartition has consumed under a selector
\* has been enqueued, in input order, on exactly the expert outputs that the
\* selector names and on no other; while the element in hand is being
\* enqueued, the experts before position j of select_vec have it already.
C15_RoutedToSelected ==
    cfg.graph = "FP" =>
        \A i \in 1..Len(Experts) :
            Payloads(Experts[i]) =
                IF act.fp.pc # "enq"
                THEN Routed(i - 1, cfg.sels, cfg.input, Consumed)
                ELSE Routed(i - 1, cfg.sels, cfg.input, Consumed - 1)
                         \o (IF \E n \in 1..(act.fp.j - 1) : act.fp.select_vec[n] = i - 1
                             THEN <<cfg.input[Consumed].v>> ELSE <<>>)

\* FlatPartition has returned after two groups, the first sent to both
\* experts and the second to one of them only.
C15_Witness ==
    /\ cfg.graph = "FP" /\ act.fp.pc = "done"
    /\ Len(cfg.sels) = 2 /\ Consumed >= 2
    /\ cfg.sels[1].v = <<TRUE, TRUE>>
    /\ cfg.sels[2].v \in {<<TRUE, FALSE>>, <<FALSE, TRUE>>}
    /\ Payloads("e0") # Payloads("e1")
    /\ Len(hist.e0) >= 1 /\ Len(hist.e1) >= 1

(***************************************************************************)
(* Graph FR: one source per expert channel and a selector generator ->     *)
(* FlatReassemble -> "out" (tests flat_reassemble_2d_multi_hot_rank_1 and  *)
(* flat_reassemble_1d_multi_hot_rank_0).  Expert i's source starts at      *)
(* cycle cfg.start[i] and sends one element per cycle; the payload of its  *)
(* n-th element is <<i, n>>.                                               *)
(***************************************************************************)
ExpertInput(i, levels) ==
    [n \in 1..Len(levels) |->
        IF levels[n] = 0 THEN Val(<<i, n>>) ELSE ValStop(<<i, n>>, levels[n])]

\* A source that has sent its whole stream from cycle start on, one element
\* per cycle, and returned.
ExpertSource(a, c, stream, start) ==
    /\ act[a].pc = "run"
    /\ chan' = Drop(EnqAll(chan, c, Stamp(stream, start)), {c})
    /\ hist' = [hist EXCEPT ![c] = Stamp(stream, start)]
    /\ act' = [act EXCEPT ![a].pc = "done", ![a].clk = start + Len(stream)]
    /\ UNCHANGED cfg

InitFR ==
    /\ \E rank \in 0..1 : \E l \in SeqsOf(0..(rank + 1), 1, MaxLen) :
          \E start \in [1..Len(Experts) -> 0..MaxOffset] :
             \E sels \in SeqsOf(Selectors, 1, MaxSels) :
                cfg = [graph |-> "FR", rank |-> rank, switch_cycles |-> <<1, 1>>,
                       levels |-> l, start |-> start, sels |-> sels]
    /\ chan = [rsel |-> NewChan(0), e0 |-> NewChan(0), e1 |-> NewChan(0),
               out |-> NewChan(0)]
    /\ hist = [rsel |-> <<>>, e0 |-> <<>>, e1 |-> <<>>, out |-> <<>>]
    /\ act = [x0 |-> [pc |-> "run", clk |-> 0],
              x1 |-> [pc |-> "run", clk |-> 0],
              gr |-> [pc |-> "run", clk |-> 0],
              fr |-> [pc |-> "sel", clk |-> 0, select_vec |-> <<>>, add |-> 0, i |-> 1,
                      arrive |-> <<>>, order |-> <<>>, k |-> 1]]

NextFR ==
    \/ ExpertSource("x0", "e0", ExpertInput(0, cfg.levels), cfg.start[1])
    \/ ExpertSource("x1", "e1", ExpertInput(1, cfg.levels), cfg.start[2])
    \/ GenAll("gr", "rsel", cfg.sels)
    \/ FlatReassemble_sel
    \/ FlatReassemble_peek
    \/ FlatReassemble_drain

SpecFR == InitFR /\ [][NextFR]_vars

\* The step of FlatReassemble that fixes the order of a wave orders the
\* selected inputs by the timestamp of their head element, equal timestamps
\* by ascending input index; every step that writes an output element takes
\* it from the input whose turn it is in that order, and the turn passes to
\* the next input of the order only with the end of a group.
EmitsInOrder ==
    /\ (act.fr.pc = "peek" /\ act'.fr.pc = "drain") =>
          LET sv == act'.fr.select_vec
              ord == act'.fr.order
              t(i) == Head(chan[Experts[sv[i] + 1]].q)[1]
          IN  /\ Len(ord) = Len(sv)
              /\ {ord[a] : a \in 1..Len(ord)} = 1..Len(sv)
              /\ \A a, b \in 1..Len(ord) :
                    a < b => \/ t(ord[a]) < t(ord[b])
                             \/ t(ord[a]) = t(ord[b]) /\ sv[ord[a]] < sv[ord[b]]
    /\ Len(hist'.out) > Len(hist.out) =>
          LET me == act.fr
              c == Experts[me.select_vec[me.order[me.k]] + 1]
              e == Head(chan[c].q)[2]
              o == hist'.out[Len(hist'.out)][2]
              ends == IF e.k = "Val" THEN cfg.rank = 0 ELSE e.s >= cfg.rank
          IN  /\ me.pc = "drain"
              /\ Len(hist'.out) = Len(hist.out) + 1
              /\ o.v = e.v
              /\ chan'[c].q = Tail(chan[c].q)
              /\ IF ~ends THEN act'.fr.pc = "drain" /\ act'.fr.k = me.k
                 ELSE IF me.k < Len(me.order) THEN act'.fr.pc = "drain" /\ act'.fr.k = me.k + 1
                 ELSE act'.fr.pc = "sel"
              /\ act'.fr.pc = "drain" => act'.fr.order = me.order

\* C16: for each selector element FlatReassemble emits the groups of the
\* selected inputs in non-decreasing order of the timestamps of the inputs'
\* head elements, inputs with equal timestamps in ascending index order.
C16_GroupsByHeadTime == [][cfg.graph = "FR" => EmitsInOrder]_vars

\* A wave in which the input of the higher index had the earlier head was
\* emitted in that order: its group is out and the turn is on input 0.
C16_Witness ==
    /\ cfg.graph = "FR" /\ act.fr.pc = "drain"
    /\ act.fr.select_vec = <<0, 1>> /\ act.fr.order = <<2, 1>> /\ act.fr.k = 2
    /\ act.fr.arrive[2] < act.fr.arrive[1]
    /\ Len(hist.out) >= 1
    /\ hist.out[Len(hist.out)][2].v[1] = 1

\* The selector element FlatReassemble is working on.
CurrentSel == cfg.sels[Len(hist.rsel) - Len(chan.rsel.q)]

\* One emission of FlatReassemble: the element written to "out" against the
\* element taken from the expert stream whose turn it is.  The element that
\* ends the group of the last expert in the order carries its input level
\* plus 1 + the selector's level; any other element carries its input level.
KeepsOrRaises ==
    Len(hist'.out) > Len(hist.out) =>
        LET me == act.fr
            c == Experts[me.select_vec[me.order[me.k]] + 1]
            e == Head(chan[c].q)[2]
            o == hist'.out[Len(hist'.out)][2]
            ends == IF cfg.rank = 0 THEN TRUE ELSE e.s >= cfg.rank
        IN  /\ o.v = e.v
            /\ o.s = IF me.k = Len(me.order) /\ ends
                     THEN e.s + 1 + CurrentSel.s
                     ELSE e.s

\* C17: for each selector element, the final element of the last-emitted
\* expert group is emitted with its stop level raised by 1 + the selector's
\* stop level (0 for a Val selector), and every other element emitted for
\* that selector element keeps the stop level it had on its input stream.
C17_StopLevels == [][cfg.graph = "FR" => KeepsOrRaises]_vars

\* The same statement for reassemble_rank > 0 only.
C17_StopLevelsRanked == [][(cfg.graph = "FR" /\ cfg.rank > 0) => KeepsOrRaises]_vars

(***************************************************************************)
(* Graph MP: two sources -> EagerMerge -> FlatPartition -> expert channels *)
(* (test eager_merge_round_trip_2d): FlatPartition reads EagerMerge's      *)
(* output and selector, partition_rank = input_rank, one expert per merged *)
(* input.  Source i sends ExpertInput(i, levels[i + 1]) from start[i + 1]. *)
(***************************************************************************)
InitMP ==
    /\ \E rank \in 0..(MaxRank - 1) :
          \E l \in [1..Len(EMIn) -> SeqsOf(0..rank, 1, MaxLen)] :
             \E start \in [1..Len(EMIn) -> 0..MaxOffset] :
                cfg = [graph |-> "MP", input_rank |-> rank, rank |-> rank,
                       switch_cycles |-> <<1, 1>>, levels |-> l, start |-> start]
    /\ chan = [in0 |-> NewChan(0), in1 |-> NewChan(0), sel |-> NewChan(0),
               out |-> NewChan(0), e0 |-> NewChan(0), e1 |-> NewChan(0)]
    /\ hist = [in0 |-> <<>>, in1 |-> <<>>, sel |-> <<>>, out |-> <<>>,
               e0 |-> <<>>, e1 |-> <<>>]
    /\ act = [s0 |-> [pc |-> "run", clk |-> 0],
              s1 |-> [pc |-> "run", clk |-> 0],
              em |-> [pc |-> "poll", clk |-> 0, l |-> EarliestInit, picks |-> <<>>],
              fp |-> [pc |-> "sel", clk |-> 0, select_vec |-> <<>>, expected |-> -1,
                      pend |-> Val(0), j |-> 1, brk |-> FALSE],
              fr |-> [pc |-> "run", clk |-> 0]]

NextMP ==
    \/ \E k \in 1..Len(EMIn) :
          ExpertSource(EMSenders[k], EMIn[k], ExpertInput(k - 1, cfg.levels[k]), cfg.start[k])
    \/ EagerMerge_poll
    \/ EagerMerge_drain
    \/ FlatPartition_sel
    \/ FlatPartition_in
    \/ FlatPartition_enq

SpecMP == InitMP /\ [][NextMP]_vars

\* C19: feeding EagerMerge's output and selector into FlatPartition with
\* partition_rank = input_rank and one expert per merged input reproduces on
\* expert i the element sequence, with stop levels, that input i supplied to
\* EagerMerge, for every timing of the inputs: what expert i has received is
\* always a prefix of input i, and it is the whole of input i once both
\* operators have returned.
C19_RoundTrip ==
    cfg.graph = "MP" =>
        \A k \in 1..Len(EMIn) :
            LET supplied == ExpertInput(k - 1, cfg.levels[k])
                got == Elems(hist[Experts[k]])
            IN  /\ IsPrefix(got, supplied)
                /\ (act.em.pc = "done" /\ act.fp.pc = "done") => got = supplied

\* Both operators have returned after EagerMerge merged two groups of input
\* 0 around a group of input 1.
C19_Witness ==
    /\ cfg.graph = "MP"
    /\ act.em.pc = "done" /\ act.fp.pc = "done"
    /\ Len(hist.sel) = 3
    /\ to_sel_vec(hist.sel[1][2].v) = <<0>>
    /\ to_sel_vec(hist.sel[2][2].v) = <<1>>
    /\ to_sel_vec(hist.sel[3][2].v) = <<0>>
    /\ Len(hist.e0) > 0 /\ Len(hist.e1) > 0

\* The index (from 0) of the rank-bounded group the n-th element of es
\* belongs to: the number of group ends before it, a group ending at a stop
\* of level rank or above (at rank 0, at every element).
GroupIndex(es, n, rank) == Cardinality({m \in 1..(n - 1) : es[m].s >= rank})

\* The elements of es whose group index is j modulo P, in order.
GroupsFor(es, j, P, rank) ==
    LET keep == {n \in 1..Len(es) : GroupIndex(es, n, rank) % P = j}
        RECURSIVE pick(_)
        pick(n) == IF n > Len(es) THEN <<>>
                   ELSE IF n \in keep THEN <<es[n]>> \o pick(n + 1) ELSE pick(n + 1)
    IN  pick(1)

\* C20: Parallelize with P outputs sends the k-th partition_rank-bounded
\* group of its input (k from 0), complete, in order and with unchanged stop
\* levels, to output k mod P and to no other: what output j has been sent is
\* always a prefix of the elements of the groups k with k mod P = j, and it
\* is all of them taken from the consumed input once Parallelize has
\* returned.
C20_RoundRobinGroups ==
    (cfg.graph = "T" /\ cfg.op = "Parallelize") =>
        \A j \in 1..Len(Outs) :
            LET sent == Elems(hist[Outs[j]])
                due == GroupsFor(cfg.input, j - 1, Len(Outs), cfg.rank)
            IN  /\ IsPrefix(sent, due)
                /\ (act.op.pc = "done" /\ act.gi.pc = "done") => sent = due

\* Parallelize has returned after sending three groups, the first and the
\* third to output 0 and the second to output 1.
C20_Witness ==
    /\ cfg.graph = "T" /\ cfg.op = "Parallelize"
    /\ act.op.pc = "done"
    /\ GroupIndex(cfg.input, Len(cfg.input), cfg.rank) = 2
    /\ Len(hist.o0) >= 2 /\ Len(hist.o1) >= 1
    /\ Len(hist.o0) + Len(hist.o1) = Len(cfg.input)

(***************************************************************************)
(* Claims about Bufferize alone (graph BS, channel "bufs").                *)
(***************************************************************************)
\* The positions of es at which a rank-bounded group ends: a stop of level
\* rank or above.
GroupEnds(es, rank) == {n \in 1..Len(es) : es[n].s >= rank}

\* The k-th (from 1) rank-bounded group of es, as the positions lo..hi.
GroupSpan(es, rank, k) ==
    LET ends == GroupEnds(es, rank)
        hi == CHOOSE n \in ends : Cardinality({m \in ends : m < n}) = k - 1
        lo == IF k = 1 THEN 1
              ELSE 1 + CHOOSE n \in ends : Cardinality({m \in ends : m < n}) = k - 2
    IN  [lo |-> lo, hi |-> hi]

\* The k-th buffer element is the k-th group of es: its payloads in order,
\* a Val when the group ends at level rank, a ValStop carrying the residual
\* level when it ends above.
BufferIsGroup(be, es, rank, k) ==
    LET g == GroupSpan(es, rank, k)
    IN  /\ be.v.data = [i \in 1..(g.hi - g.lo + 1) |-> es[g.lo + i - 1].v]
        /\ be.s = es[g.hi].s - rank
        /\ be.k = IF es[g.hi].s = rank THEN "Val" ELSE "ValStop"

\* C21: Bufferize(rank) emits one buffer per input group, containing exactly
\* that group's elements in order: Val(buffer) when the group ends on stop
\* level rank and ValStop(buffer, L - rank) when it ends on L > rank.  Once
\* Bufferize is over, it has returned and "bufs" carries one such buffer for
\* each group of the input.
C21_BufferPerGroup ==
    (cfg.graph = "BS" /\ act.buf.pc \in {"done", "fail"}) =>
        LET es == StreamOf(cfg.shape)
            bs == Elems(hist.bufs)
        IN  /\ act.buf.pc = "done"
            /\ Len(bs) = Cardinality(GroupEnds(es, cfg.rank))
            /\ \A k \in 1..Len(bs) : BufferIsGroup(bs[k], es, cfg.rank, k)

\* The buffers Bufferize does emit are the input's groups, one by one.
C21_EmittedAreGroups ==
    cfg.graph = "BS" =>
        LET es == StreamOf(cfg.shape)
            bs == Elems(hist.bufs)
        IN  /\ Len(bs) <= Cardinality(GroupEnds(es, cfg.rank))
            /\ \A k \in 1..Len(bs) : BufferIsGroup(bs[k], es, cfg.rank, k)

(***************************************************************************)
(* BinaryMap and UnaryMap (operator/map.rs).  Graph Map: generators ->     *)
(* "in1", "in2" -> the map (cfg.op) -> "out".  A tile is its size in bytes *)
(* and its read_from_mu flag; n numbers the tiles of a stream.  The map's  *)
(* function f is a parameter of the actor: it returns cfg.comp cycles and  *)
(* a tile of cfg.out_bytes bytes that records the tiles it was given.      *)
(***************************************************************************)
PMU_BW == 64

\* A division that drops the remainder.
div_floor(a, b) == a \div b

\* utils::calculation::div_ceil.
div_ceil(a, b) == IF a % b = 0 THEN a \div b ELSE a \div b + 1

\* The stream of tiles with the given stop levels.
TileStream(levels, bytes, mu) ==
    [n \in 1..Len(levels) |->
        LET t == [bytes |-> bytes, mu |-> mu, n |-> n]
        IN  IF levels[n] = 0 THEN Val(t) ELSE ValStop(t, levels[n])]

\* The tile f returns for the given input tiles.
func(tiles) ==
    [bytes |-> cfg.out_bytes, mu |-> cfg.write_back_mu,
     n |-> [i \in 1..Len(tiles) |-> tiles[i].n]]

\* A pairing that accepts any two elements of the same kind.
pair_by_kind(e1, e2) == IF e1.k = e2.k THEN "ok" ELSE "panic"

\* The match on (data1_enum, data2_enum) of BinaryMap::run: Val/Val and
\* ValStop/ValStop of equal levels go on, anything else panics.
pair(e1, e2) ==
    IF e1.k = "Val" /\ e2.k = "Val" THEN "ok"
    ELSE IF e1.k = "ValStop" /\ e2.k = "ValStop" THEN (IF e1.s # e2.s THEN "panic" ELSE "ok")
    ELSE "panic"

\* load_cycle, store_cycles and their maximum with the cycles of f.
roofline_cycles(tiles, out_tile) ==
    LET load(i) == IF tiles[i].mu THEN div_ceil(tiles[i].bytes, PMU_BW) ELSE 0
        load_cycle == IF Len(tiles) = 1 THEN load(1) ELSE load(1) + load(2)
        store_cycles == IF cfg.write_back_mu THEN div_ceil(out_tile.bytes, PMU_BW) ELSE 0
    IN  Max(Max(load_cycle, cfg.comp), store_cycles)

\* The map after it has read the tiles at clock clk: the roofline cycles are
\* charged and the output element waits for its enqueue.  starts logs the
\* clock at which each element (pair) was read.
MapCharged(me, clk, tiles, e) ==
    LET out_tile == func(tiles)
        after == clk + roofline_cycles(tiles, out_tile)
    IN  [me EXCEPT !.pc = "emit", !.clk = after,
                   !.starts = Append(@, clk),
                   !.pend = IF e.k = "Val" THEN Val(out_tile) ELSE ValStop(out_tile, e.s)]

\* BinaryMap::run up to the enqueue: peek_next on both inputs, the match,
\* the roofline charge.
BinaryMap_read ==
    /\ cfg.op = "BinaryMap" /\ act.map.pc = "run"
    /\ LET p1 == peek("in1")
           p2 == peek("in2")
           me == act.map
           clk == Max(Max(me.clk, IF p1.r = "Something" THEN p1.t ELSE 0),
                      IF p2.r = "Something" THEN p2.t ELSE 0)
       IN  /\ p1.r # "Nothing" /\ p2.r # "Nothing"
           /\ IF p1.r = "Closed" /\ p2.r = "Closed"
              THEN /\ act' = [act EXCEPT !.map.pc = "done"]
                   /\ chan' = Drop(chan, {"out"})
              ELSE IF p1.r = "Closed" \/ p2.r = "Closed" \/ pair(p1.e, p2.e) = "panic"
              THEN /\ act' = [act EXCEPT !.map.pc = "fail", !.map.clk = clk]
                   /\ chan' = Drop(chan, {"out"})
              ELSE /\ act' = [act EXCEPT !.map = MapCharged(me, clk, <<p1.e.v, p2.e.v>>, p1.e)]
                   /\ chan' = chan
    /\ UNCHANGED <<cfg, hist>>

\* UnaryMap::run up to the enqueue.
UnaryMap_read ==
    /\ cfg.op = "UnaryMap" /\ act.map.pc = "run"
    /\ LET p == peek("in1")
           me == act.map
           clk == Max(me.clk, p.t)
       IN  \/ /\ p.r = "Something"
              /\ act' = [act EXCEPT !.map = MapCharged(me, clk, <<p.e.v>>, p.e)]
              /\ chan' = chan
           \/ /\ p.r = "Closed"
              /\ act' = [act EXCEPT !.map.pc = "done"]
              /\ chan' = Drop(chan, {"out"})
    /\ UNCHANGED <<cfg, hist>>

\* The enqueue stamped with the clock after the charge, then the dequeue of
\* the inputs.
Map_enq ==
    /\ act.map.pc = "emit"
    /\ HasRoom("out")
    /\ LET me == act.map
           o == <<me.clk, me.pend>>
           clk == EnqClk("out", me.clk)
           ch == Deq(EnqAll(chan, "out", <<o>>), "in1", clk)
       IN  /\ chan' = IF cfg.op = "BinaryMap" THEN Deq(ch, "in2", clk) ELSE ch
           /\ hist' = [hist EXCEPT !.out = Append(@, o)]
           /\ act' = [act EXCEPT !.map.pc = "run", !.map.clk = clk]
    /\ UNCHANGED cfg

\* The parameters of a run: the two input streams, f's cycles and output
\* size, write_back_mu and the depth of the output channel.
MapConfig(op, l1, l2, t1, t2, comp, wb, depth) ==
    [graph |-> "Map", op |-> op, delay |-> 1, depth |-> depth,
     in1 |-> TileStream(l1, t1.bytes, t1.mu), in2 |-> TileStream(l2, t2.bytes, t2.mu),
     comp |-> comp, out_bytes |-> 2 * PMU_BW + 1, write_back_mu |-> wb]

InitMap ==
    /\ \E depth \in {0, 1} :
          \/ \E l1 \in SeqsOf(0..MaxRank, 0, MaxLen), l2 \in SeqsOf(0..MaxRank, 0, MaxLen) :
                cfg = MapConfig("BinaryMap", l1, l2, [bytes |-> 1, mu |-> TRUE],
                                [bytes |-> PMU_BW, mu |-> TRUE], 0, FALSE, depth)
          \/ \E l \in SeqsOf(0..1, 1, MaxLen), comp \in {0, 2, 4}, wb \in BOOLEAN,
                t1 \in [bytes : {1, PMU_BW + 1}, mu : BOOLEAN] :
                \/ \E t2 \in [bytes : {PMU_BW}, mu : BOOLEAN] :
                      cfg = MapConfig("BinaryMap", l, l, t1, t2, comp, wb, depth)
                \/ cfg = MapConfig("UnaryMap", l, <<>>, t1, t1, comp, wb, depth)
    /\ chan = [in1 |-> NewChan(0), in2 |-> NewChan(0), out |-> NewChan(cfg.depth)]
    /\ hist = [in1 |-> <<>>, in2 |-> <<>>, out |-> <<>>]
    /\ act = [g1 |-> [pc |-> "run", clk |-> 0],
              g2 |-> [pc |-> "run", clk |-> 0],
              map |-> [pc |-> "run", clk |-> 0, starts |-> <<>>, pend |-> Val(0)],
              k |-> [pc |-> "run", clk |-> 0]]

NextMap ==
    \/ GenAll("g1", "in1", cfg.in1)
    \/ GenAll("g2", "in2", cfg.in2)
    \/ BinaryMap_read
    \/ UnaryMap_read
    \/ Map_enq
    \/ Consumer_run("k", "out")

SpecMap == InitMap /\ [][NextMap]_vars

\* The input pair n is Val/Val or ValStop/ValStop with equal levels.
Matched(n) ==
    /\ n <= Len(cfg.in1) /\ n <= Len(cfg.in2)
    /\ cfg.in1[n].k = cfg.in2[n].k
    /\ cfg.in1[n].s = cfg.in2[n].s

\* The number of leading input pairs that are all matched.
MatchedPairs ==
    Cardinality({n \in 1..Len(cfg.in1) : \A m \in 1..n : Matched(m)})

\* C22: BinaryMap emits an output element only for an input pair that is
\* Val/Val or ValStop/ValStop with equal levels, and the output has the kind
\* and level of the pair; for any other pair, or when one input closes
\* before the other, the actor fails without emitting an element for that
\* pair.  The n-th output is made of the n-th tiles of both inputs.
C22_MatchedPairsOnly ==
    (cfg.graph = "Map" /\ cfg.op = "BinaryMap") =>
        LET out == Elems(hist.out)
        IN  /\ \A n \in 1..Len(out) :
                  /\ \A m \in 1..n : Matched(m)
                  /\ out[n].k = cfg.in1[n].k /\ out[n].s = cfg.in1[n].s
                  /\ out[n].v.n = <<n, n>>
            /\ act.map.pc \in {"done", "fail"} =>
                  /\ Len(out) = MatchedPairs
                  /\ act.map.pc = "fail" <=>
                        (MatchedPairs < Len(cfg.in1) \/ MatchedPairs < Len(cfg.in2))

\* BinaryMap has failed on a pair of stops of different levels after it
\* emitted an output for a matched pair.
C22_Witness ==
    /\ cfg.graph = "Map" /\ cfg.op = "BinaryMap"
    /\ act.map.pc = "fail"
    /\ Len(hist.out) = 1
    /\ Len(cfg.in1) > 1 /\ Len(cfg.in2) > 1
    /\ cfg.in1[2].k = "ValStop" /\ cfg.in2[2].k = "ValStop"
    /\ cfg.in1[2].s # cfg.in2[2].s

\* ceil(a / b) by its definition: the least q with q * b >= a.
Ceil(a, b) == CHOOSE q \in 0..a : q * b >= a /\ \A r \in 0..(q - 1) : r * b < a

\* max(load, compute, store) for the n-th element (pair) of the inputs.
Roofline(n) ==
    LET t1 == cfg.in1[n].v
        t2 == cfg.in2[n].v
        load == (IF t1.mu THEN Ceil(t1.bytes, 64) ELSE 0)
                    + (IF cfg.op = "BinaryMap" /\ t2.mu THEN Ceil(t2.bytes, 64) ELSE 0)
        store == IF cfg.write_back_mu THEN Ceil(cfg.out_bytes, 64) ELSE 0
    IN  Max(load, Max(cfg.comp, store))

\* C23: for each element (pair) processed by UnaryMap or BinaryMap the
\* clock advances between reading the inputs and emitting the output by
\* exactly max(load, compute, store): the output's timestamp is the clock at
\* which the inputs were read plus that maximum.
C23_RooflineCharge ==
    cfg.graph = "Map" =>
        /\ \A n \in 1..Len(hist.out) :
              hist.out[n][1] = act.map.starts[n] + Roofline(n)
        /\ act.map.pc = "emit" =>
              act.map.clk = act.map.starts[Len(act.map.starts)]
                                + Roofline(Len(act.map.starts))

\* An output whose charge was the load of two tiles read from memory units,
\* one of them one byte larger than the bandwidth, above compute and store.
C23_Witness ==
    /\ cfg.graph = "Map" /\ cfg.op = "BinaryMap"
    /\ Len(hist.out) > 0
    /\ cfg.in1[1].v.mu /\ cfg.in2[1].v.mu /\ cfg.in1[1].v.bytes = PMU_BW + 1
    /\ cfg.comp = 2 /\ ~cfg.write_back_mu
    /\ hist.out[1][1] = act.map.starts[1] + 3

(***************************************************************************)
(* Accum (operator/accum.rs) and BinaryMapAccum (operator/map_accum.rs).   *)
(* Graph Acc: generators -> "in1", "in2" -> the actor (cfg.op) -> "out".   *)
(* The folder f and init_accum are parameters of the actor: the tile f     *)
(* returns records, in order, the inputs folded into it; init_accum        *)
(* returns the tile that records none.                                     *)
(***************************************************************************)
init_accum == [bytes |-> cfg.out_bytes, mu |-> cfg.write_back_mu, n |-> <<>>]

\* The tile f returns for the input tiles and the accumulator.
fold(tiles, accumulator) ==
    [accumulator EXCEPT !.n = Append(@, [i \in 1..Len(tiles) |-> tiles[i].n])]

\* An accumulator that is carried over an emission.
accumulator_kept(out_tile, emits) == out_tile

\* The accumulator after a step: process_accum keeps f's result,
\* process_accum_init starts again from init_accum.
accumulator_after(out_tile, emits) == IF emits THEN init_accum ELSE out_tile

\* What run does with an element: accumulate ("none"), or accumulate and
\* emit a Val ("val") or a ValStop of the residual level ("stop").
accum_emits(e) ==
    IF e.k = "Val" THEN "none"
    ELSE IF e.s < cfg.rank THEN "none"
    ELSE IF e.s = cfg.rank THEN "val" ELSE "stop"

\* The cycles of a step: max(load, compute), and on an emission the store
\* of the fresh accumulator as well.
accum_cycles(tiles, emits) ==
    LET load(i) == IF tiles[i].mu THEN div_ceil(tiles[i].bytes, PMU_BW) ELSE 0
        load_cycle == IF Len(tiles) = 1 THEN load(1) ELSE load(1) + load(2)
        store_cycles == IF emits /\ cfg.write_back_mu
                        THEN div_ceil(init_accum.bytes, PMU_BW) ELSE 0
    IN  Max(Max(load_cycle, cfg.comp), store_cycles)

\* The actor after one step on the tiles of element e read at clock clk.
AccumStep(me, clk, tiles, e) ==
    LET out_tile == fold(tiles, me.accumulator)
        how == accum_emits(e)
    IN  [me EXCEPT !.clk = clk + accum_cycles(tiles, how # "none"),
                   !.accumulator = accumulator_after(out_tile, how # "none"),
                   !.pc = IF how = "none" THEN "run" ELSE "emit",
                   !.pend = IF how = "val" THEN Val(out_tile)
                            ELSE ValStop(out_tile, e.s - cfg.rank)]

\* Accum::run, one element: peek_next, process_accum or process_accum_init
\* with its dequeue.
Accum_step ==
    /\ cfg.op = "Accum" /\ act.acc.pc = "run"
    /\ LET p == peek("in1")
           me == act.acc
           clk == Max(me.clk, p.t)
       IN  \/ /\ p.r = "Something"
              /\ act' = [act EXCEPT !.acc = AccumStep(me, clk, <<p.e.v>>, p.e)]
              /\ chan' = Deq(chan, "in1", clk + accum_cycles(<<p.e.v>>, accum_emits(p.e) # "none"))
           \/ /\ p.r = "Closed"
              /\ act' = [act EXCEPT !.acc.pc = "done"]
              /\ chan' = Drop(chan, {"out"})
    /\ UNCHANGED <<cfg, hist>>

\* BinaryMapAccum::run, one pair: both peek_next, the match, then
\* process_map_accum or process_map_accum_init with its dequeues.
BinaryMapAccum_step ==
    /\ cfg.op = "BinaryMapAccum" /\ act.acc.pc = "run"
    /\ LET p1 == peek("in1")
           p2 == peek("in2")
           me == act.acc
           clk == Max(Max(me.clk, IF p1.r = "Something" THEN p1.t ELSE 0),
                      IF p2.r = "Something" THEN p2.t ELSE 0)
           tiles == <<p1.e.v, p2.e.v>>
           after == clk + accum_cycles(tiles, accum_emits(p1.e) # "none")
       IN  /\ p1.r # "Nothing" /\ p2.r # "Nothing"
           /\ IF p1.r = "Closed" /\ p2.r = "Closed"
              THEN /\ act' = [act EXCEPT !.acc.pc = "done"]
                   /\ chan' = Drop(chan, {"out"})
              ELSE IF p1.r = "Closed" \/ p2.r = "Closed" \/ pair(p1.e, p2.e) = "panic"
              THEN /\ act' = [act EXCEPT !.acc.pc = "fail", !.acc.clk = clk]
                   /\ chan' = Drop(chan, {"out"})
              ELSE /\ act' = [act EXCEPT !.acc = AccumStep(me, clk, tiles, p1.e)]
                   /\ chan' = Deq(Deq(chan, "in1", after), "in2", after)
    /\ UNCHANGED <<cfg, hist>>

\* The enqueue of the emitted tile.
Accum_enq ==
    /\ act.acc.pc = "emit"
    /\ HasRoom("out")
    /\ LET me == act.acc
           o == <<me.clk, me.pend>>
       IN  /\ chan' = EnqAll(chan, "out", <<o>>)
           /\ hist' = [hist EXCEPT !.out = Append(@, o)]
           /\ act' = [act EXCEPT !.acc.pc = "run", !.acc.clk = EnqClk("out", me.clk)]
    /\ UNCHANGED cfg

InitAcc ==
    /\ \E rank \in 0..MaxRank, l \in SeqsOf(0..(MaxRank + 1), 0, MaxLen), depth \in {0, 1},
          wb \in BOOLEAN :
          \/ cfg = [MapConfig("Accum", l, <<>>, [bytes |-> PMU_BW + 1, mu |-> TRUE],
                              [bytes |-> 1, mu |-> FALSE], 1, wb, depth)
                       EXCEPT !.graph = "Acc"] @@ [rank |-> rank]
          \/ \E short \in {0, 1} :
                /\ short <= Len(l)
                /\ cfg = [MapConfig("BinaryMapAccum", l, SubSeq(l, 1, Len(l) - short),
                                    [bytes |-> PMU_BW + 1, mu |-> TRUE],
                                    [bytes |-> 1, mu |-> TRUE], 1, wb, depth)
                             EXCEPT !.graph = "Acc"] @@ [rank |-> rank]
    /\ chan = [in1 |-> NewChan(0), in2 |-> NewChan(0), out |-> NewChan(cfg.depth)]
    /\ hist = [in1 |-> <<>>, in2 |-> <<>>, out |-> <<>>]
    /\ act = [g1 |-> [pc |-> "run", clk |-> 0],
              g2 |-> [pc |-> "run", clk |-> 0],
              acc |-> [pc |-> "run", clk |-> 0, accumulator |-> init_accum, pend |-> Val(0)],
              k |-> [pc |-> "run", clk |-> 0]]

NextAcc ==
    \/ GenAll("g1", "in1", cfg.in1)
    \/ GenAll("g2", "in2", cfg.in2)
    \/ Accum_step
    \/ BinaryMapAccum_step
    \/ Accum_enq
    \/ Consumer_run("k", "out")

SpecAcc == InitAcc /\ [][NextAcc]_vars

\* The elements (pairs) the actor has taken from its input so far.
AccTaken == Len(hist.in1) - Len(chan.in1.q)

\* The k-th output is the fold over the k-th group of the input: exactly
\* the inputs lo..hi in order, a Val when the group ends at level rank, a
\* ValStop of the residual level when it ends above.
OutputIsFold(o, es, k) ==
    LET g == GroupSpan(es, cfg.rank, k)
        one(n) == IF cfg.op = "Accum" THEN <<n>> ELSE <<n, n>>
    IN  /\ o.v.n = [i \in 1..(g.hi - g.lo + 1) |-> one(g.lo + i - 1)]
        /\ o.s = es[g.hi].s - cfg.rank
        /\ o.k = IF es[g.hi].s = cfg.rank THEN "Val" ELSE "ValStop"

\* C24: BinaryMapAccum and Accum emit exactly one output per input step
\* whose stop level is >= rank (Val when the level equals rank, ValStop(level
\* - rank) when it is greater), and each emitted tile is the fold of f over
\* exactly the inputs received since the previous emission, starting from a
\* freshly constructed accumulator.
C24_OneFoldPerGroup ==
    (cfg.graph = "Acc" /\ act.acc.pc = "run") =>
        LET es == SubSeq(cfg.in1, 1, AccTaken)
            out == Elems(hist.out)
        IN  /\ Len(out) = Cardinality(GroupEnds(es, cfg.rank))
            /\ \A k \in 1..Len(out) : OutputIsFold(out[k], es, k)

\* The same statement for rank >= 1.
C24_OneFoldPerGroupRanked ==
    (cfg.graph = "Acc" /\ cfg.rank >= 1 /\ act.acc.pc = "run") =>
        LET es == SubSeq(cfg.in1, 1, AccTaken)
            out == Elems(hist.out)
        IN  /\ Len(out) = Cardinality(GroupEnds(es, cfg.rank))
            /\ \A k \in 1..Len(out) : OutputIsFold(out[k], es, k)

(***************************************************************************)
(* ExpandRef (operator/expand.rs).  Graph Exp: generators -> "in", "ref"   *)
(* -> ExpandRef -> "out".                                                  *)
(***************************************************************************)
\* ExpandRef::run, one dequeue of ref_stream under the input element that
\* peek_next shows: a Val input takes the rank-0 arm (expand_rank must be 1,
\* a ref stop panics, the end of ref returns), a ValStop input the other
\* (a ref stop of level >= expand_rank moves on, the end of ref panics).
ExpandRef_run ==
    /\ act.ex.pc = "run"
    /\ LET p == peek("in")
           r == peek("ref")
           me == act.ex
           clk == Max(Max(me.clk, p.t), r.t)
           o == <<clk, IF r.e.k = "Val" THEN Val(p.e.v) ELSE ValStop(p.e.v, r.e.s)>>
           fails(ch) == /\ chan' = Drop(ch, {"out"})
                        /\ hist' = hist
                        /\ act' = [act EXCEPT !.ex.pc = "fail"]
       IN  \/ /\ p.r = "Closed"
              /\ chan' = Drop(chan, {"out"})
              /\ hist' = hist
              /\ act' = [act EXCEPT !.ex.pc = "done"]
           \/ /\ p.r = "Something" /\ p.e.k = "Val" /\ cfg.expand_rank # 1
              /\ fails(chan)
           \/ /\ p.r = "Something" /\ p.e.k = "Val" /\ cfg.expand_rank = 1
              /\ \/ /\ r.r = "Something" /\ r.e.k = "Val"
                    /\ chan' = Deq(EnqAll(chan, "out", <<o>>), "ref", clk)
                    /\ hist' = [hist EXCEPT !.out = Append(@, o)]
                    /\ act' = [act EXCEPT !.ex.clk = clk]
                 \/ /\ r.r = "Something" /\ r.e.k = "ValStop"
                    /\ fails(Deq(chan, "ref", clk))
                 \/ /\ r.r = "Closed"
                    /\ chan' = Drop(Deq(chan, "in", me.clk), {"out"})
                    /\ hist' = hist
                    /\ act' = [act EXCEPT !.ex.pc = "done"]
           \/ /\ p.r = "Something" /\ p.e.k = "ValStop"
              /\ \/ /\ r.r = "Something"
                    /\ chan' = IF r.e.k = "ValStop" /\ r.e.s >= cfg.expand_rank
                               THEN Deq(Deq(EnqAll(chan, "out", <<o>>), "ref", clk), "in", clk)
                               ELSE Deq(EnqAll(chan, "out", <<o>>), "ref", clk)
                    /\ hist' = [hist EXCEPT !.out = Append(@, o)]
                    /\ act' = [act EXCEPT !.ex.clk = clk]
                 \/ /\ r.r = "Closed"
                    /\ fails(chan)
    /\ UNCHANGED cfg

InitExp ==
    /\ \E expand_rank \in 1..MaxRank, l \in SeqsOf(0..MaxRank, 1, MaxLen - 1),
          rl \in SeqsOf(0..MaxRank, 0, MaxLen + 1) :
          cfg = [graph |-> "Exp", expand_rank |-> expand_rank,
                 input |-> StreamOfLevels(l), ref |-> StreamOfLevels(rl)]
    /\ chan = [in |-> NewChan(0), ref |-> NewChan(0), out |-> NewChan(0)]
    /\ hist = [in |-> <<>>, ref |-> <<>>, out |-> <<>>]
    /\ act = [gi |-> [pc |-> "run", clk |-> 0],
              gr |-> [pc |-> "run", clk |-> 0],
              ex |-> [pc |-> "run", clk |-> 0]]

NextExp ==
    \/ GenAll("gi", "in", cfg.input)
    \/ GenAll("gr", "ref", cfg.ref)
    \/ ExpandRef_run

SpecExp == InitExp /\ [][NextExp]_vars

\* The ref elements ExpandRef has consumed so far.
RefTaken == Len(hist.ref) - Len(chan.ref.q)

\* The input element (from 1) that is current when the j-th ref element is
\* consumed: one further for every ref stop of level >= expand_rank before.
InputAt(j) == 1 + Cardinality({m \in 1..(j - 1) : cfg.ref[m].s >= cfg.expand_rank})

\* C25: for every input element (Val or ValStop), ExpandRef emits one copy
\* of that element for each ref element it consumes and moves on to the next
\* input element exactly after consuming a ref element whose stop level is
\* >= expand_rank.
C25_CopyPerRef ==
    cfg.graph = "Exp" =>
        /\ Len(hist.out) = RefTaken
        /\ \A j \in 1..Len(hist.out) :
              /\ InputAt(j) <= Len(cfg.input)
              /\ hist.out[j][2].v = cfg.input[InputAt(j)].v
        /\ act.ex.pc = "run" =>
              Len(hist.in) - Len(chan.in.q) = IF hist.in = <<>> THEN 0 ELSE InputAt(RefTaken + 1) - 1

\* The same statement for input elements that are ValStop only.
C25_CopyPerRefOfStops ==
    (cfg.graph = "Exp" /\ \A n \in 1..Len(cfg.input) : cfg.input[n].k = "ValStop") =>
        /\ Len(hist.out) = RefTaken
        /\ \A j \in 1..Len(hist.out) :
              /\ InputAt(j) <= Len(cfg.input)
              /\ hist.out[j][2].v = cfg.input[InputAt(j)].v
        /\ act.ex.pc = "run" =>
              Len(hist.in) - Len(chan.in.q) = IF hist.in = <<>> THEN 0 ELSE InputAt(RefTaken + 1) - 1

(***************************************************************************)
(* DynStreamify (operator/dynstreamify.rs).  Graph Dyn: generators ->      *)
(* "bufs" (buffers), "ref" -> DynStreamify -> "out".  The tiles of buffer  *)
(* b are <<b, 1>>, <<b, 2>>, ...                                           *)
(***************************************************************************)
\* The level of a ValStop tile replayed under a ref ValStop; -1 is the panic
\* on a tile level above bufferized_rank.
new_stop_level(tile_stop_lev, ref_stop_lev) ==
    IF tile_stop_lev = cfg.bufferized_rank THEN tile_stop_lev + ref_stop_lev
    ELSE IF tile_stop_lev < cfg.bufferized_rank THEN tile_stop_lev
    ELSE -1

\* The tiles one replay of buff enqueues under the ref element r, up to the
\* tile that panics, if any.
Replay(buff, r) ==
    LET es == to_elem_iter(buff)
        lev(i) == IF r.k = "Val" \/ es[i].k = "Val" THEN es[i].s
                  ELSE new_stop_level(es[i].s, r.s)
        ok == {i \in 1..Len(es) : \A m \in 1..i : lev(m) # -1}
    IN  [i \in 1..Cardinality(ok) |-> IF lev(i) = 0 THEN Val(es[i].v) ELSE ValStop(es[i].v, lev(i))]

\* DynStreamify::run, one dequeue of ref_stream under the buffer that
\* peek_next shows, with the replay it triggers.  ends logs the length of
\* the output after each ref element.
DynStreamify_run ==
    /\ act.dyn.pc = "run"
    /\ LET p == peek("bufs")
           r == peek("ref")
           me == act.dyn
           clk == Max(Max(me.clk, p.t), r.t)
           es == Replay(p.e.v, r.e)
           os == Stamp(es, clk)
           whole == Len(es) = Len(p.e.v.data)
           next == r.e.k = "ValStop" /\ r.e.s >= cfg.repeat_rank + 1
       IN  \/ /\ p.r = "Closed"
              /\ chan' = Drop(chan, {"out"})
              /\ hist' = hist
              /\ act' = [act EXCEPT !.dyn.pc = "done"]
           \/ /\ p.r = "Something" /\ r.r = "Something"
              /\ IF p.e.k = "Val" /\ r.e.k = "ValStop"
                 THEN /\ chan' = Drop(Deq(chan, "ref", clk), {"out"})
                      /\ hist' = hist
                      /\ act' = [act EXCEPT !.dyn.pc = "fail", !.dyn.clk = clk,
                                            !.dyn.ends = Append(@, Len(hist.out))]
                 ELSE /\ hist' = [hist EXCEPT !.out = @ \o os]
                      /\ act' = [act EXCEPT !.dyn.clk = clk + Len(es),
                                            !.dyn.pc = IF whole THEN "run" ELSE "fail",
                                            !.dyn.ends = Append(@, Len(hist.out) + Len(es))]
                      /\ chan' =
                           LET ch == Deq(EnqAll(chan, "out", os), "ref", clk)
                           IN  IF ~whole THEN Drop(ch, {"out"})
                               ELSE IF p.e.k = "ValStop" /\ next
                               THEN Deq(ch, "bufs", clk + Len(es))
                               ELSE ch
           \/ /\ p.r = "Something" /\ r.r = "Closed"
              /\ hist' = hist
              /\ IF p.e.k = "Val"
                 THEN /\ chan' = Drop(chan, {"out"})
                      /\ act' = [act EXCEPT !.dyn.pc = "done"]
                 ELSE /\ chan' = Deq(chan, "bufs", Max(me.clk, p.t))
                      /\ act' = [act EXCEPT !.dyn.clk = Max(me.clk, p.t)]
    /\ UNCHANGED cfg

\* The b-th buffer of the input, of the given shape.
BufferNo(b, shape) == [shape |-> shape, data |-> [i \in 1..Product(shape) |-> <<b, i>>]]

InitDyn ==
    /\ \E bufferized_rank \in 1..MaxRank, repeat_rank \in 0..1,
          outer \in SeqsOf(0..MaxRank, 1, 2), rl \in SeqsOf(0..MaxRank, 0, MaxLen) :
          \E shape \in Shapes(bufferized_rank, bufferized_rank) :
             cfg = [graph |-> "Dyn", bufferized_rank |-> bufferized_rank,
                    repeat_rank |-> repeat_rank,
                    bufs |-> [b \in 1..Len(outer) |->
                                 IF outer[b] = 0 THEN Val(BufferNo(b, shape))
                                 ELSE ValStop(BufferNo(b, shape), outer[b])],
                    ref |-> StreamOfLevels(rl)]
    /\ chan = [bufs |-> NewChan(0), ref |-> NewChan(0), out |-> NewChan(0)]
    /\ hist = [bufs |-> <<>>, ref |-> <<>>, out |-> <<>>]
    /\ act = [gb |-> [pc |-> "run", clk |-> 0],
              gr |-> [pc |-> "run", clk |-> 0],
              dyn |-> [pc |-> "run", clk |-> 0, ends |-> <<>>]]

NextDyn ==
    \/ GenAll("gb", "bufs", cfg.bufs)
    \/ GenAll("gr", "ref", cfg.ref)
    \/ DynStreamify_run

SpecDyn == InitDyn /\ [][NextDyn]_vars

\* The output written for the j-th consumed ref element.
Segment(j) ==
    LET lo == IF j = 1 THEN 0 ELSE act.dyn.ends[j - 1]
    IN  SubSeq(Elems(hist.out), lo + 1, act.dyn.ends[j])

\* The buffer (from 1) that is current when the j-th ref element is consumed:
\* one further for every ref stop of level >= repeat_rank + 1 before.
BufferAt(j) ==
    1 + Cardinality({m \in 1..(j - 1) : cfg.ref[m].s >= cfg.repeat_rank + 1})

\* C26: DynStreamify replays the current buffer once for every ref element
\* it consumes and advances to the next input buffer exactly after consuming
\* a ref ValStop(_, k) with k >= repeat_rank + 1, whether the buffer arrived
\* as Val(buffer) or as ValStop(buffer, _).
C26_ReplayPerRef ==
    cfg.graph = "Dyn" =>
        /\ Len(act.dyn.ends) = RefTaken
        /\ \A j \in 1..RefTaken :
              /\ BufferAt(j) <= Len(cfg.bufs)
              /\ [i \in 1..Len(Segment(j)) |-> Segment(j)[i].v] = cfg.bufs[BufferAt(j)].v.data

\* The same statement for buffers that arrive as ValStop(buffer, _) only.
C26_ReplayPerRefOfStops ==
    (cfg.graph = "Dyn" /\ \A b \in 1..Len(cfg.bufs) : cfg.bufs[b].k = "ValStop") =>
        /\ Len(act.dyn.ends) = RefTaken
        /\ \A j \in 1..RefTaken :
              /\ BufferAt(j) <= Len(cfg.bufs)
              /\ [i \in 1..Len(Segment(j)) |-> Segment(j)[i].v] = cfg.bufs[BufferAt(j)].v.data

\* C27: in DynStreamify's output the tile that ends a replay of the buffer
\* carries stop level bufferized_rank + k when the replay was triggered by
\* ref ValStop(_, k) and bufferized_rank when it was triggered by ref Val;
\* every other tile keeps the stop level it has in the buffer's own
\* traversal.
C27_ReplayLevels ==
    cfg.graph = "Dyn" =>
        \A j \in 1..Len(act.dyn.ends) :
            LET seg == Segment(j)
                n == Len(seg)
            IN  n > 0 =>
                  LET own == to_elem_iter(cfg.bufs[seg[1].v[1]].v)
                  IN  /\ n = Len(own)
                      /\ \A i \in 1..(n - 1) : seg[i].s = own[i].s
                      /\ seg[n].s = cfg.bufferized_rank + cfg.ref[j].s

\* The same statement for buffers of more than one tile: the traversal of a
\* one-tile buffer ends at level 1 whatever its rank.
C27_ReplayLevelsOfMany ==
    (cfg.graph = "Dyn" /\ Len(cfg.bufs[1].v.data) > 1) =>
        \A j \in 1..Len(act.dyn.ends) :
            LET seg == Segment(j)
                n == Len(seg)
            IN  n > 0 =>
                  LET own == to_elem_iter(cfg.bufs[seg[1].v[1]].v)
                  IN  /\ n = Len(own)
                      /\ \A i \in 1..(n - 1) : seg[i].s = own[i].s
                      /\ seg[n].s = cfg.bufferized_rank + cfg.ref[j].s

(***************************************************************************)
(* Reshape (operator/reshape.rs).  Graph Rs: generator -> "in" -> Reshape  *)
(* -> "out".  pad_val is <<>> for None and <<x>> for Some(x); the input    *)
(* payloads are 1, 2, ... and the pad value is 0.                          *)
(***************************************************************************)
MaxChunk == 3

\* A chunk boundary that never tells the end of the stream.
stop_level_inner(next) == 1

\* The level of the stop that closes a chunk at a Val; next is the result
\* of peek_next after the Val (reshape.rs:59-67).
stop_level(next) ==
    IF cfg.add_outer_dim THEN (IF next = "Something" THEN 1 ELSE 2) ELSE 1

\* Padding that only closes the chunk.
padding_short(counter, lev) == <<ValStop(cfg.pad_val[1], lev)>>

\* The pad elements that complete a chunk holding counter elements, the last
\* with stop level lev (reshape.rs:113-129, 148-166).
padding(counter, lev) ==
    [i \in 1..(cfg.chunk_size - counter) |->
        IF i = cfg.chunk_size - counter THEN ValStop(cfg.pad_val[1], lev)
        ELSE Val(cfg.pad_val[1])]

\* Every stop counts.
counted_any(s) == TRUE

\* The stops that count towards a chunk when split_dim > 0 (reshape.rs:189).
counted(s) == s >= cfg.split_dim

\* What Reshape::run does with its next dequeue: the elements it enqueues,
\* the counter, and whether an assertion fails after them.
ReshapeStep(p, next, counter) ==
    LET c == counter + 1
    IN  IF cfg.split_dim = 0
        THEN IF p.r = "Closed"
             THEN IF 0 < counter /\ counter < cfg.chunk_size
                  THEN IF cfg.pad_val = <<>> \/ cfg.input_stream_rank # 0
                       THEN [out |-> <<>>, counter |-> counter, pc |-> "fail"]
                       ELSE [out |-> padding(counter, IF cfg.add_outer_dim THEN 2 ELSE 1),
                             counter |-> counter, pc |-> "done"]
                  ELSE [out |-> <<>>, counter |-> counter, pc |-> "done"]
             ELSE IF p.e.k = "Val"
             THEN IF c = cfg.chunk_size
                  THEN [out |-> <<ValStop(p.e.v, stop_level(next))>>, counter |-> 0, pc |-> "run"]
                  ELSE [out |-> <<Val(p.e.v)>>, counter |-> c, pc |-> "run"]
             ELSE IF c = cfg.chunk_size
                  THEN [out |-> <<ValStop(p.e.v, p.e.s + 1)>>, counter |-> 0, pc |-> "run"]
                  ELSE IF cfg.pad_val = <<>>
                  THEN [out |-> <<Val(p.e.v)>>, counter |-> c, pc |-> "fail"]
                  ELSE [out |-> <<Val(p.e.v)>> \o padding(c, p.e.s + 1), counter |-> 0, pc |-> "run"]
        ELSE IF p.r = "Closed"
             THEN [out |-> <<>>, counter |-> counter, pc |-> "done"]
             ELSE IF p.e.k = "Val"
             THEN [out |-> <<Val(p.e.v)>>, counter |-> counter, pc |-> "run"]
             ELSE LET n == IF counted(p.e.s) THEN c ELSE counter
                  IN  IF n = cfg.chunk_size
                      THEN [out |-> <<ValStop(p.e.v, p.e.s + 1)>>, counter |-> 0, pc |-> "run"]
                      ELSE [out |-> <<ValStop(p.e.v, p.e.s)>>, counter |-> n, pc |-> "run"]

\* Reshape::run, one iteration of its loop: the dequeue, the peek_next that a
\* chunk boundary at a Val makes when add_outer_dim is set, and the enqueues.
\* The actor charges no cycles.
Reshape_run ==
    /\ act.rs.pc = "run"
    /\ LET p == peek("in")
           me == act.rs
           next == IF Len(chan.in.q) >= 2 THEN "Something"
                   ELSE IF chan.in.closed THEN "Closed" ELSE "Nothing"
           peeks == /\ cfg.split_dim = 0 /\ cfg.add_outer_dim
                    /\ p.r = "Something" /\ p.e.k = "Val"
                    /\ me.counter + 1 = cfg.chunk_size
           clk == IF p.r = "Something" THEN Max(me.clk, p.t) ELSE me.clk
           st == ReshapeStep(p, next, me.counter)
           os == [i \in 1..Len(st.out) |-> <<clk, st.out[i]>>]
       IN  /\ p.r # "Nothing"
           /\ peeks => next # "Nothing"
           /\ hist' = [hist EXCEPT !.out = @ \o os]
           /\ act' = [act EXCEPT !.rs.pc = st.pc, !.rs.clk = clk, !.rs.counter = st.counter]
           /\ chan' = LET ch == IF p.r = "Something"
                                THEN Deq(EnqAll(chan, "out", os), "in", clk)
                                ELSE EnqAll(chan, "out", os)
                      IN  IF st.pc = "run" THEN ch ELSE Drop(ch, {"out"})
    /\ UNCHANGED cfg

\* A stream of rank input_stream_rank: Vals only for rank 0, otherwise stops
\* of level 1..rank, the last element carrying the rank.
InitRs ==
    /\ \E split_dim \in 0..MaxRank, chunk_size \in 1..MaxChunk, pad_val \in {<<>>, <<0>>},
          add_outer_dim \in BOOLEAN, input_stream_rank \in 0..MaxRank :
          \E l \in SeqsOf(0..input_stream_rank, 0, MaxLen + 1) :
             /\ input_stream_rank > 0 => l # <<>> /\ l[Len(l)] = input_stream_rank
             /\ cfg = [graph |-> "Rs", split_dim |-> split_dim, chunk_size |-> chunk_size,
                       pad_val |-> pad_val, add_outer_dim |-> add_outer_dim,
                       input_stream_rank |-> input_stream_rank, input |-> StreamOfLevels(l)]
    /\ chan = [in |-> NewChan(0), out |-> NewChan(0)]
    /\ hist = [in |-> <<>>, out |-> <<>>]
    /\ act = [gi |-> [pc |-> "run", clk |-> 0],
              rs |-> [pc |-> "run", clk |-> 0, counter |-> 0]]

NextRs ==
    \/ GenAll("gi", "in", cfg.input)
    \/ Reshape_run

SpecRs == InitRs /\ [][NextRs]_vars

RsOut == Elems(hist.out)

\* The payloads of the stream es whose innermost groups (and, for a stream
\* without stops, the stream itself) are filled with the pad value to a
\* multiple of chunk_size; n is the length of the group so far.
RECURSIVE PaddedPayloads(_, _)
PaddedPayloads(es, n) ==
    LET fill(m) == [i \in 1..((cfg.chunk_size - (m % cfg.chunk_size)) % cfg.chunk_size) |-> 0]
    IN  IF es = <<>> THEN fill(n)
        ELSE IF Head(es).s = 0 THEN <<Head(es).v>> \o PaddedPayloads(Tail(es), n + 1)
        ELSE <<Head(es).v>> \o fill(n + 1) \o PaddedPayloads(Tail(es), 0)

\* C28: with split_dim = 0 the output of Reshape is the input elements in
\* order with pad_val inserted only at the end of an innermost group (or at
\* the end of the stream for a rank-0 input) whose length is not a multiple
\* of chunk_size; every chunk_size-th output element carries a stop token and
\* no other one does; the output length is a multiple of chunk_size.  The
\* run fails only when padding is needed and no pad_val was given.
C28_PaddedChunks ==
    (cfg.graph = "Rs" /\ cfg.split_dim = 0) =>
        /\ act.rs.pc = "fail" => cfg.pad_val = <<>>
        /\ act.rs.pc = "done" =>
              /\ [i \in 1..Len(RsOut) |-> RsOut[i].v] = PaddedPayloads(cfg.input, 0)
              /\ \A i \in 1..Len(RsOut) : (RsOut[i].s > 0) <=> (i % cfg.chunk_size = 0)
              /\ Len(RsOut) % cfg.chunk_size = 0

\* A rank-1 stream of four elements reshaped in chunks of three: the second
\* chunk is one element and two pads.
C28_Witness ==
    /\ cfg.graph = "Rs" /\ cfg.split_dim = 0 /\ act.rs.pc = "done"
    /\ cfg.input_stream_rank = 1 /\ cfg.chunk_size = 3
    /\ Len(RsOut) = 6 /\ RsOut[4].v = 4 /\ RsOut[5].v = 0 /\ RsOut[6].v = 0

\* C29: for a rank-0 input with split_dim = 0 every chunk boundary carries
\* level 1 except the final output element, which carries 2 when
\* add_outer_dim is set and 1 otherwise, whether or not the input length
\* divides by chunk_size.
C29_TerminalStop ==
    (cfg.graph = "Rs" /\ cfg.split_dim = 0 /\ cfg.input_stream_rank = 0
        /\ act.rs.pc = "done") =>
        LET n == Len(RsOut)
            last == IF cfg.add_outer_dim THEN 2 ELSE 1
        IN  /\ \A i \in 1..n : i % cfg.chunk_size = 0 =>
                  RsOut[i].s = IF i = n THEN last ELSE 1
            /\ n > 0 => RsOut[n].s = last

\* Three elements in chunks of two with add_outer_dim: the first boundary at
\* level 1, the pad that ends the output at level 2.
C29_Witness ==
    /\ cfg.graph = "Rs" /\ cfg.split_dim = 0 /\ cfg.input_stream_rank = 0
    /\ act.rs.pc = "done" /\ cfg.add_outer_dim /\ cfg.chunk_size = 2
    /\ Len(RsOut) = 4 /\ RsOut[2].s = 1 /\ RsOut[4] = ValStop(0, 2)

RsTaken == Len(hist.in) - Len(chan.in.q)

\* The n-th input element is a stop of level >= split_dim, and the number of
\* such stops up to it is a multiple of chunk_size.
Rewritten(n) ==
    /\ cfg.input[n].s >= cfg.split_dim
    /\ Cardinality({m \in 1..n : cfg.input[m].s >= cfg.split_dim}) % cfg.chunk_size = 0

\* C30: with split_dim > 0 Reshape forwards every element unchanged, except
\* that every chunk_size-th input ValStop(_, s) with s >= split_dim, counted
\* since the previous rewrite, becomes ValStop(_, s + 1); stops below
\* split_dim neither count nor change.
C30_OuterStopsRaised ==
    (cfg.graph = "Rs" /\ cfg.split_dim > 0) =>
        /\ Len(RsOut) = RsTaken
        /\ \A n \in 1..RsTaken :
              RsOut[n] = IF Rewritten(n) THEN ValStop(cfg.input[n].v, cfg.input[n].s + 1)
                         ELSE cfg.input[n]

\* split_dim = 2, chunks of two: a level-1 stop went through unchanged
\* between the two level-2 stops, the second of which left at level 3.
C30_Witness ==
    /\ cfg.graph = "Rs" /\ cfg.split_dim = 2 /\ cfg.chunk_size = 2
    /\ \E n \in 1..Len(RsOut) :
          /\ RsOut[n].s = 3
          /\ \E m \in 1..(n - 1) : cfg.input[m].s = 1 /\ RsOut[m].s = 1
          /\ \E m \in 1..(n - 1) : cfg.input[m].s = 2 /\ RsOut[m].s = 2

(***************************************************************************)
(* Off-chip loads and the HBM channel model (memory/offchip_load.rs,       *)
(* memory/dyn_offchip_load.rs; the HBM context follows spec section 4.7).  *)
(* Graph Load: [ref ->] load -> "addr" -> HBM -> "resp" -> load -> "out".  *)
(* A request is Val(<<addr, ...>>), a response Val(addr), a tile is named  *)
(* by the index of its source tile.                                        *)
(***************************************************************************)
\* A request served the moment it arrives.
serve_time_eager(t, next_free) == t

\* serve_time = max(t, next_free).
serve_time(t, next_free) == Max(t, next_free)

\* The memory channel (from 1) of an address.
channel_of(addr) == ((addr \div cfg.addr_offset) % cfg.channel_num) + 1

\* The HBM context accepting the addresses of one request at time t: the
\* responses <<time, Val(addr)>> and the channels' next free cycles.
RECURSIVE Serve(_, _, _)
Serve(addrs, t, next_free) ==
    IF addrs = <<>> THEN [resps |-> <<>>, next_free |-> next_free]
    ELSE LET ch == channel_of(Head(addrs))
             st == serve_time(t, next_free[ch])
             rest == Serve(Tail(addrs), t, [next_free EXCEPT ![ch] = st + cfg.init_interval])
         IN  [resps |-> <<<<st + cfg.latency, Val(Head(addrs))>>>> \o rest.resps,
              next_free |-> rest.next_free]

\* The HBM context: one request dequeued and answered; it returns when the
\* address channel is closed.
HBM_serve ==
    /\ act.hbm.pc = "run"
    /\ LET p == peek("addr")
           t == Max(act.hbm.clk, p.t)
           sv == Serve(p.e.v, t, act.hbm.next_free)
       IN  \/ /\ p.r = "Something"
              /\ chan' = Deq(EnqAll(chan, "resp", sv.resps), "addr", t)
              /\ hist' = [hist EXCEPT !.resp = @ \o sv.resps]
              /\ act' = [act EXCEPT !.hbm.clk = t, !.hbm.next_free = sv.next_free]
           \/ /\ p.r = "Closed"
              /\ chan' = Drop(chan, {"resp"})
              /\ hist' = hist
              /\ act' = [act EXCEPT !.hbm.pc = "done"]
    /\ UNCHANGED cfg

\* A stop level that looks at the innermost dimension only.
highest_stop_token_inner(multi_index) ==
    LET n == Len(cfg.out_shape_tiled)
    IN  IF multi_index[n] = cfg.out_shape_tiled[n] - 1 THEN 1 ELSE 0

\* The scan of generate_addr from the innermost dimension dim outwards
\* (offchip_load.rs:196-216); 0 is None.
RECURSIVE StopScan(_, _, _, _)
StopScan(multi_index, dim, all_inner_dims_at_end, highest) ==
    IF dim = 0 THEN highest
    ELSE IF all_inner_dims_at_end
    THEN LET is_dim_size_one == cfg.out_shape_tiled[dim] = 1
             is_last_elem == multi_index[dim] = cfg.out_shape_tiled[dim] - 1
         IN  StopScan(multi_index, dim - 1, is_last_elem,
                      IF is_last_elem \/ is_dim_size_one
                      THEN Len(cfg.out_shape_tiled) - (dim - 1) ELSE highest)
    ELSE StopScan(multi_index, dim - 1, all_inner_dims_at_end, highest)

highest_stop_token(multi_index) ==
    StopScan(multi_index, Len(cfg.out_shape_tiled), TRUE, 0)

\* The source tile of a multi-index: the strided index modulo the tensor.
RECURSIVE Strided(_, _)
Strided(multi_index, stride) ==
    IF multi_index = <<>> THEN 0
    ELSE Head(multi_index) * Head(stride) + Strided(Tail(multi_index), Tail(stride))

tile_idx(multi_index) ==
    LET original_size == Product(cfg.tensor_shape_tiled)
    IN  IF original_size > 0 THEN Strided(multi_index, cfg.stride) % original_size ELSE 0

\* The byte addresses of a tile, row by row in steps of addr_offset.
tile_addrs(idx) ==
    LET tile_offset == cfg.tile_row * cfg.tile_col * cfg.n_byte
        base_addr_i == cfg.base_addr_byte + idx * tile_offset
        row_offset == cfg.tensor_shape_tiled[Len(cfg.tensor_shape_tiled)] * cfg.tile_col * cfg.n_byte
        per_row == div_ceil(cfg.tile_col * cfg.n_byte, cfg.addr_offset)
    IN  [i \in 1..(cfg.tile_row * per_row) |->
            base_addr_i + ((i - 1) \div per_row) * row_offset
                        + ((i - 1) % per_row) * cfg.addr_offset]

\* The flat_idx-th (from 0) entry of generate_addr: addresses and element.
generate_addr(flat_idx) ==
    LET mi == MultiIndex(flat_idx, cfg.out_shape_tiled)
        lev == highest_stop_token(mi)
    IN  [addrs |-> tile_addrs(tile_idx(mi)),
         elem |-> IF lev = 0 THEN Val(tile_idx(mi)) ELSE ValStop(tile_idx(mi), lev)]

\* Waiting for the first response only.
responses_awaited_one(addrs) == 1

\* The number of responses dequeued before the tile is sent: one for every
\* address of the tile (offchip_load.rs:323-326).
responses_awaited(addrs) == Len(addrs)

\* The read requests of one tile: chunks of par_dispatch addresses, the
\* idx-th stamped send_request_time + idx.
Requests(addrs, send_request_time) ==
    [c \in 1..div_ceil(Len(addrs), cfg.par_dispatch) |->
        <<send_request_time + c - 1,
          Val(SubSeq(addrs, (c - 1) * cfg.par_dispatch + 1,
                     Min(c * cfg.par_dispatch, Len(addrs))))>>]

\* A pass that ignores the ref stop.
final_stop_lev_kept(level, ref_stop_lev) == level

\* The level of a tile of a pass of DynOffChipLoad under the ref stop
\* ref_stop_lev, 0 for a ref Val (dyn_offchip_load.rs:276-288).
final_stop_lev(level, ref_stop_lev) ==
    IF ref_stop_lev > 0 /\ level = Len(cfg.out_shape_tiled) THEN ref_stop_lev + level
    ELSE level

\* OffChipLoad::run / DynOffChipLoad::stream_tiles, first half of the loop
\* body: the requests of the next tile are enqueued.
OffChipLoad_issue ==
    /\ act.ld.pc = "issue"
    /\ LET g == generate_addr(act.ld.flat_idx)
           rq == Requests(g.addrs, act.ld.clk)
       IN  /\ chan' = EnqAll(chan, "addr", rq)
           /\ hist' = [hist EXCEPT !.addr = @ \o rq]
           /\ act' = [act EXCEPT !.ld.pc = "wait", !.ld.pending = responses_awaited(g.addrs)]
    /\ UNCHANGED cfg

\* Second half: one response dequeued; after the last one the tile is
\* enqueued on the on-chip stream.  After the last tile OffChipLoad returns
\* and DynOffChipLoad goes back to its ref stream.
OffChipLoad_wait ==
    /\ act.ld.pc = "wait"
    /\ LET p == peek("resp")
           me == act.ld
           clk == Max(me.clk, p.t)
           g == generate_addr(me.flat_idx)
           e == IF g.elem.k = "Val" THEN g.elem
                ELSE ValStop(g.elem.v, final_stop_lev(g.elem.s, me.ref_stop_lev))
           last == me.flat_idx + 1 = Product(cfg.out_shape_tiled)
           ch == Deq(chan, "resp", clk)
       IN  /\ p.r = "Something"
           /\ IF me.pending > 1
              THEN /\ chan' = ch
                   /\ hist' = hist
                   /\ act' = [act EXCEPT !.ld.clk = clk, !.ld.pending = @ - 1]
              ELSE /\ hist' = [hist EXCEPT !.out = Append(@, <<clk, e>>)]
                   /\ chan' = IF last /\ cfg.op = "OffChipLoad"
                              THEN Drop(EnqAll(ch, "out", <<<<clk, e>>>>), {"addr", "out"})
                              ELSE EnqAll(ch, "out", <<<<clk, e>>>>)
                   /\ act' = [act EXCEPT !.ld.clk = clk, !.ld.pending = 0,
                                         !.ld.flat_idx = IF last THEN 0 ELSE @ + 1,
                                         !.ld.pc = IF ~last THEN "issue"
                                                   ELSE IF cfg.op = "OffChipLoad" THEN "done"
                                                   ELSE "ref"]
    /\ UNCHANGED cfg

\* DynOffChipLoad::run: the next ref element starts a pass over the tiles;
\* the actor returns when ref is closed.
DynOffChipLoad_run ==
    /\ act.ld.pc = "ref"
    /\ LET p == peek("ref")
           clk == Max(act.ld.clk, p.t)
       IN  \/ /\ p.r = "Something"
              /\ chan' = Deq(chan, "ref", clk)
              /\ act' = [act EXCEPT !.ld.clk = clk, !.ld.pc = "issue",
                                    !.ld.ref_stop_lev = p.e.s]
           \/ /\ p.r = "Closed"
              /\ chan' = Drop(chan, {"addr", "out"})
              /\ act' = [act EXCEPT !.ld.pc = "done"]
    /\ hist' = hist
    /\ UNCHANGED cfg

\* Row-major strides of a shape, in tiles.
RowMajor(shape) == [d \in 1..Len(shape) |-> Product(SubSeq(shape, d + 1, Len(shape)))]

LoadConfig(op, shape, stride, tile_row, tile_col, par_dispatch, channel_num, ii, start_up, ref) ==
    [graph |-> "Load", op |-> op, out_shape_tiled |-> shape, tensor_shape_tiled |-> shape,
     stride |-> stride, tile_row |-> tile_row, tile_col |-> tile_col, n_byte |-> 4,
     base_addr_byte |-> 0, addr_offset |-> 64, par_dispatch |-> par_dispatch,
     channel_num |-> channel_num, latency |-> 2, init_interval |-> ii,
     start_up |-> start_up, ref |-> ref]

InitLoad ==
    /\ \E shape \in Shapes(1, MaxRank), zero \in BOOLEAN :
          LET stride == IF zero THEN [d \in 1..Len(shape) |-> 0] ELSE RowMajor(shape)
          IN  \/ \E tile_row \in 1..2, tile_col \in {16, 32}, par_dispatch \in 1..2,
                    channel_num \in 1..2, ii \in 1..2, start_up \in {0, 3} :
                    cfg = LoadConfig("OffChipLoad", shape, stride, tile_row, tile_col,
                                     par_dispatch, channel_num, ii, start_up, <<>>)
              \/ \E rl \in SeqsOf(0..MaxRank, 0, 2) :
                    cfg = LoadConfig("DynOffChipLoad", shape, stride, 1, 32, 1, 1, 1, 0,
                                     StreamOfLevels(rl))
    /\ chan = [ref |-> NewChan(0), addr |-> NewChan(0), resp |-> NewChan(0), out |-> NewChan(0)]
    /\ hist = [ref |-> <<>>, addr |-> <<>>, resp |-> <<>>, out |-> <<>>]
    /\ act = [gr |-> [pc |-> "run", clk |-> 0],
              ld |-> [pc |-> IF cfg.op = "OffChipLoad" THEN "issue" ELSE "ref", clk |-> 0,
                      flat_idx |-> 0, pending |-> 0, ref_stop_lev |-> 0],
              hbm |-> [pc |-> "run", clk |-> 0,
                       next_free |-> [c \in 1..cfg.channel_num |-> cfg.start_up]]]

NextLoad ==
    \/ cfg.op = "DynOffChipLoad" /\ GenAll("gr", "ref", cfg.ref)
    \/ OffChipLoad_issue
    \/ OffChipLoad_wait
    \/ DynOffChipLoad_run
    \/ HBM_serve

SpecLoad == InitLoad /\ [][NextLoad]_vars

LoadOut == Elems(hist.out)

\* The number of innermost dimensions in which the multi-index mi of a tile
\* is at the last position, counted up to the first one where it is not.
AtEnd(mi, shape) ==
    MaxOf({k \in 0..Len(shape) :
              \A d \in (Len(shape) - k + 1)..Len(shape) : mi[d] = shape[d] - 1})

\* C31: OffChipLoad emits exactly product(out_shape_tiled) tiles in
\* row-major order of out_shape_tiled; a tile carries stop level k >= 1
\* exactly when its multi-index is at the last position in each of the k
\* innermost dimensions and not in the next outer one, Val otherwise; the
\* final tile carries level len(out_shape_tiled).
C31_RowMajorStops ==
    (cfg.graph = "Load" /\ cfg.op = "OffChipLoad") =>
        LET shape == cfg.out_shape_tiled
            total == Product(shape)
        IN  /\ Len(LoadOut) <= total
            /\ act.ld.pc = "done" => Len(LoadOut) = total
            /\ \A n \in 1..Len(LoadOut) :
                  LET mi == MultiIndex(n - 1, shape)
                      k == AtEnd(mi, shape)
                  IN  /\ LoadOut[n] = IF k = 0 THEN Val(LoadOut[n].v) ELSE ValStop(LoadOut[n].v, k)
                      /\ cfg.stride = RowMajor(shape) => LoadOut[n].v = n - 1
                      /\ n = total => LoadOut[n].s = Len(shape)

\* A 2 x 2 view loaded to the end: Val, level 1, Val, level 2.
C31_Witness ==
    /\ cfg.graph = "Load" /\ cfg.op = "OffChipLoad" /\ act.ld.pc = "done"
    /\ cfg.out_shape_tiled = <<2, 2>> /\ cfg.stride = <<2, 1>>
    /\ LoadOut = <<Val(0), ValStop(1, 1), Val(2), ValStop(3, 2)>>

\* The number of addresses in a log of requests.
RECURSIVE AddrCount(_)
AddrCount(log) == IF log = <<>> THEN 0 ELSE Len(Head(log)[2].v) + AddrCount(Tail(log))

Issued == AddrCount(hist.addr)

Answered == Len(hist.resp) - Len(chan.resp.q)

\* Every tile reads the same number of addresses.
PerTile == Len(tile_addrs(0))

\* C32: OffChipLoad enqueues a tile on the on-chip stream only after it has
\* dequeued one response for every address it issued for that tile: the
\* tile's timestamp is at least the timestamp of each of those responses,
\* and no response is left unconsumed when the next tile's requests are
\* issued.
C32_TileAfterResponses ==
    cfg.graph = "Load" =>
        /\ \A n \in 1..Len(hist.out) :
              /\ n * PerTile <= Answered
              /\ \A j \in ((n - 1) * PerTile + 1)..(n * PerTile) :
                    hist.out[n][1] >= hist.resp[j][1]
        /\ Issued <= (Len(hist.out) + 1) * PerTile
        /\ act.ld.pc = "issue" =>
              /\ Answered = Issued /\ chan.resp.q = <<>>
              /\ Issued = Len(hist.out) * PerTile

\* Two tiles of four addresses each, sent two per request, are on the
\* on-chip stream and the loader is about to issue the third.
C32_Witness ==
    /\ cfg.graph = "Load" /\ cfg.op = "OffChipLoad" /\ act.ld.pc = "issue"
    /\ PerTile = 4 /\ cfg.par_dispatch = 2 /\ cfg.channel_num = 2
    /\ Len(hist.out) = 2 /\ Answered = 8
    /\ hist.out[2][1] > hist.out[1][1]

\* The tiles of the j-th pass of DynOffChipLoad (one pass per ref element).
Pass(j) ==
    LET total == Product(cfg.out_shape_tiled)
    IN  SubSeq(LoadOut, (j - 1) * total + 1, Min(j * total, Len(LoadOut)))

\* The stop levels of the stop-token encoding of a shape, 0 for Val.
LevelsOf(es) == [i \in 1..Len(es) |-> es[i].s]

\* C33: for every ref element DynOffChipLoad emits the complete tile
\* sequence of out_shape_tiled once; under ref ValStop(_, r) the last tile
\* of the pass carries len(out_shape_tiled) + r and every other tile keeps
\* its own level, so that for a ref stream encoding shape S the output
\* encodes S followed by out_shape_tiled.
C33_PassPerRef ==
    (cfg.graph = "Load" /\ cfg.op = "DynOffChipLoad") =>
        LET shape == cfg.out_shape_tiled
            total == Product(shape)
            taken == Len(hist.ref) - Len(chan.ref.q)
        IN  /\ Len(LoadOut) <= taken * total
            /\ act.ld.pc \in {"ref", "done"} => Len(LoadOut) = taken * total
            /\ \A j \in 1..taken : \A i \in 1..Len(Pass(j)) :
                  LET own == AtEnd(MultiIndex(i - 1, shape), shape)
                  IN  Pass(j)[i].s = IF i = total THEN Len(shape) + cfg.ref[j].s ELSE own
            /\ \A S \in Shapes(1, 2) :
                  (act.ld.pc = "done" /\ LevelsOf(cfg.ref) = LevelsOf(StreamOf(S)))
                      => LevelsOf(LoadOut) = LevelsOf(StreamOf(S \o shape))

\* A ref stream of shape [2] over a 1 x 2 view: the output encodes [2, 1, 2].
C33_Witness ==
    /\ cfg.graph = "Load" /\ cfg.op = "DynOffChipLoad" /\ act.ld.pc = "done"
    /\ cfg.out_shape_tiled = <<1, 2>>
    /\ LevelsOf(cfg.ref) = <<0, 1>>
    /\ LevelsOf(LoadOut) = <<0, 2, 0, 3>>

(***************************************************************************)
(* The HBM context alone.  Graph HBM: a requester whose requests arrive at *)
(* arbitrary times -> "addr" -> HBM -> "resp".                             *)
(***************************************************************************)
MaxGap == 3

\* The requester: every request of cfg.reqs sent with its own timestamp.
Requester_run ==
    /\ act.rq.pc = "run"
    /\ chan' = Drop(EnqAll(chan, "addr", cfg.reqs), {"addr"})
    /\ hist' = [hist EXCEPT !.addr = cfg.reqs]
    /\ act' = [act EXCEPT !.rq.pc = "done"]
    /\ UNCHANGED cfg

\* The arrival times of requests that follow one another by the given gaps.
RECURSIVE Arrivals(_, _)
Arrivals(gaps, t) ==
    IF gaps = <<>> THEN <<>> ELSE <<t + Head(gaps)>> \o Arrivals(Tail(gaps), t + Head(gaps))

InitHBM ==
    /\ \E n \in 1..MaxLen, channel_num \in 1..2, ii \in 1..2, start_up \in {0, 3} :
          \E gaps \in [1..n -> 0..MaxGap], to \in [1..n -> 0..1] :
             cfg = [graph |-> "HBM", addr_offset |-> 64, channel_num |-> channel_num,
                    latency |-> 2, init_interval |-> ii, start_up |-> start_up,
                    reqs |-> [j \in 1..n |->
                                 <<Arrivals(gaps, 0)[j], Val(<<64 * (2 * j + to[j])>>)>>]]
    /\ chan = [addr |-> NewChan(0), resp |-> NewChan(0)]
    /\ hist = [addr |-> <<>>, resp |-> <<>>]
    /\ act = [rq |-> [pc |-> "run", clk |-> 0],
              hbm |-> [pc |-> "run", clk |-> 0,
                       next_free |-> [c \in 1..cfg.channel_num |-> cfg.start_up]]]

NextHBM ==
    \/ Requester_run
    \/ HBM_serve

SpecHBM == InitHBM /\ [][NextHBM]_vars

\* The rank of the n-th response among the responses of its memory channel.
RankInChannel(n) ==
    Cardinality({m \in 1..n :
        channel_of(hist.resp[m][2].v) = channel_of(hist.resp[n][2].v)})

\* C34: for k requests routed to a single HBM channel with initiation
\* interval I, latency L and start-up time start_up, the k-th response is
\* delivered at or after start_up + (k - 1) * I + L, for every arrival
\* pattern of the requests.
C34_LatencyBound ==
    cfg.graph = "HBM" =>
        \A n \in 1..Len(hist.resp) :
            hist.resp[n][1] >= cfg.start_up + (RankInChannel(n) - 1) * cfg.init_interval
                               + cfg.latency

\* Three requests on the one channel, the last arriving after the channel
\* fell idle: its response is later than the bound; the first meets it.
C34_Witness ==
    /\ cfg.graph = "HBM" /\ cfg.channel_num = 1 /\ cfg.start_up = 3
    /\ Len(hist.resp) = 3
    /\ hist.resp[1][1] = cfg.start_up + cfg.latency
    /\ hist.resp[3][1] > cfg.start_up + 2 * cfg.init_interval + cfg.latency

(***************************************************************************)
(* BroadcastContext (operator/broadcast.rs).  Graph Bc: generator -> "in"  *)
(* -> broadcast -> "t0", "t1" -> one sink per target.                      *)
(***************************************************************************)
\* Waiting for the first target only.
wait_until_first(targets, clk) == EnqClk(Head(targets), clk)

\* The clock after wait_until_available has returned for every target in
\* turn (broadcast.rs:27-29).
RECURSIVE wait_until_available(_, _)
wait_until_available(targets, clk) ==
    IF targets = <<>> THEN clk
    ELSE wait_until_available(Tail(targets), EnqClk(Head(targets), clk))

\* BroadcastContext::run, the dequeue; it returns when the input is closed.
Broadcast_deq ==
    /\ act.bc.pc = "run"
    /\ LET p == peek("in")
           clk == Max(act.bc.clk, p.t)
       IN  \/ /\ p.r = "Something"
              /\ chan' = Deq(chan, "in", clk)
              /\ act' = [act EXCEPT !.bc.pc = "wait", !.bc.clk = clk, !.bc.data = p.e]
           \/ /\ p.r = "Closed"
              /\ chan' = Drop(chan, {"t0", "t1"})
              /\ act' = [act EXCEPT !.bc.pc = "done"]
    /\ hist' = hist
    /\ UNCHANGED cfg

\* The rest of the loop body: every target has room, the element is stamped
\* with the clock reached and enqueued on every target.
Broadcast_enq ==
    /\ act.bc.pc = "wait"
    /\ \A i \in 1..Len(cfg.targets) : HasRoom(cfg.targets[i])
    /\ LET clk == wait_until_available(cfg.targets, act.bc.clk)
           o == <<clk, act.bc.data>>
       IN  /\ chan' = [c \in DOMAIN chan |->
                          IF \E i \in 1..Len(cfg.targets) : cfg.targets[i] = c
                          THEN [chan[c] EXCEPT !.q = Append(@, o)] ELSE chan[c]]
           /\ hist' = [c \in DOMAIN hist |->
                          IF \E i \in 1..Len(cfg.targets) : cfg.targets[i] = c
                          THEN Append(hist[c], o) ELSE hist[c]]
           /\ act' = [act EXCEPT !.bc.pc = "run", !.bc.clk = clk]
    /\ UNCHANGED cfg

\* The consumer of target i: it takes delays[i] cycles per element.
Target_run(i) ==
    LET a == <<"k0", "k1">>[i]
        c == <<"t0", "t1">>[i]
        p == peek(c)
    IN  /\ act[a].pc = "run"
        /\ \/ /\ p.r = "Something"
              /\ chan' = Deq(chan, c, Max(act[a].clk, p.t))
              /\ act' = [act EXCEPT ![a].clk = Max(@, p.t) + cfg.delays[i]]
           \/ /\ p.r = "Closed"
              /\ chan' = chan
              /\ act' = [act EXCEPT ![a].pc = "done"]
        /\ UNCHANGED <<cfg, hist>>

InitBc ==
    /\ \E l \in SeqsOf(0..1, 0, MaxLen + 1), depth \in 0..MaxCap, n \in 1..2,
          delays \in [1..2 -> 0..2] :
          cfg = [graph |-> "Bc", input |-> StreamOfLevels(l), depth |-> depth,
                 targets |-> SubSeq(<<"t0", "t1">>, 1, n), delays |-> delays]
    /\ chan = [in |-> NewChan(0), t0 |-> NewChan(cfg.depth), t1 |-> NewChan(cfg.depth)]
    /\ hist = [in |-> <<>>, t0 |-> <<>>, t1 |-> <<>>]
    /\ act = [gi |-> [pc |-> "run", clk |-> 0],
              bc |-> [pc |-> "run", clk |-> 0, data |-> Val(0)],
              k0 |-> [pc |-> "run", clk |-> 0],
              k1 |-> [pc |-> "run", clk |-> 0]]

NextBc ==
    \/ GenAll("gi", "in", cfg.input)
    \/ Broadcast_deq
    \/ Broadcast_enq
    \/ Target_run(1)
    \/ Target_run(2)

SpecBc == InitBc /\ [][NextBc]_vars

\* C35: BroadcastContext enqueues a copy of an input element to any target
\* only once every target channel has free capacity, and then delivers the
\* element to every target with one common timestamp, in input order.
C35_AllTargetsTogether ==
    cfg.graph = "Bc" =>
        \A i \in 1..Len(cfg.targets) :
            LET c == cfg.targets[i]
            IN  /\ hist[c] = hist[cfg.targets[1]]
                /\ IsPrefix(Elems(hist[c]), cfg.input)
                /\ chan[c].cap > 0 => Len(chan[c].q) <= chan[c].cap
                /\ \A m \in 1..Len(hist[c]) :
                      /\ hist[c][m][1] >= hist.in[m][1]
                      /\ (chan[c].cap > 0 /\ m > chan[c].cap) =>
                            \A j \in 1..Len(cfg.targets) :
                               hist[c][m][1] >= chan[cfg.targets[j]].dq[m - chan[c].cap]

\* Two targets of depth 1, the second consumer slower: the third element
\* reached both with the one timestamp, after the slow consumer's dequeue.
C35_Witness ==
    /\ cfg.graph = "Bc" /\ Len(cfg.targets) = 2 /\ cfg.depth = 1
    /\ cfg.delays = <<0, 2>>
    /\ Len(hist.t1) = 3 /\ hist.t0 = hist.t1
    /\ hist.t1[3][1] = chan.t1.dq[2] /\ hist.t1[3][1] > chan.t0.dq[2]

\* C36: an operator actor returns normally only if its inputs closed on a
\* group boundary; if an input closes after part of a group has been
\* consumed and before the group's closing stop, the actor fails.  Here for
\* Accum, whose groups end at the stops of level >= rank.
C36_FailsOnPartialGroup ==
    (cfg.graph = "Acc" /\ cfg.op = "Accum" /\ cfg.rank >= 1 /\ act.acc.pc = "done") =>
        \/ cfg.in1 = <<>>
        \/ cfg.in1[Len(cfg.in1)].s >= cfg.rank

\* C37: for every element FlatReassemble emits from input i, the timestamp
\* of the emitted element is at least switch_cycles[i] (plus the write-back
\* cycles, none in graph FR where write_back_mu is off) later than the clock
\* the actor had when it began handling that element.
C37_ChargePerElement ==
    [][(cfg.graph = "FR" /\ Len(hist'.out) > Len(hist.out)) =>
          LET me == act.fr
              stream_idx == me.select_vec[me.order[me.k]]
          IN  hist'.out[Len(hist'.out)][1] >= me.clk + cfg.switch_cycles[stream_idx + 1]]_vars

(***************************************************************************)
(* ChannelMap (build_sim/channel.rs): the map from a producer id to the    *)
(* unconnected end(s) of the channel(s) leaving that producer.  chan is    *)
(* the sequence of channels the builder has created (their capacities),    *)
(* hist the ends handed out so far, act.cm.map the map itself: per id      *)
(* either no entry, a Single end (stream index None, written -1) or a      *)
(* Broadcast map from stream indices to ends.                              *)
(***************************************************************************)
MaxCalls == 4

DEFAULT_CHAN_SIZE == 1024

ProducerIds == 0..1

\* idx: None (-1) or Some(stream_idx).
StreamIdxs == {-1, 0, 1}

\* capacity: None (0) or Some(cap).
Capacities == {0, 1}

Opposite(end) == IF end = "Snd" THEN "Rcv" ELSE "Snd"

\* builder.bounded(cap), or the default capacity when none is given.
bounded(capacity) == IF capacity = 0 THEN DEFAULT_CHAN_SIZE ELSE capacity

\* get_sender (want = "Snd") and get_receiver (want = "Rcv"), which differ
\* only in the end they return: the end kept in the map under (id, idx) is
\* taken out and returned; with nothing kept there a new channel is created,
\* its opposite end kept, the wanted end returned; any other entry panics.
get_end(want, id, idx, capacity) ==
    /\ act.cm.pc = "build"
    /\ Len(hist) < MaxCalls
    /\ LET entry == act.cm.map[id]
           held == {e \in entry.ends : e.idx = idx}
           ch == Len(chan) + 1
           kept == [idx |-> idx, end |-> Opposite(want), ch |-> ch]
           kind == IF idx = -1 THEN "Single" ELSE "Broadcast"
           panics == \/ entry.kind \notin {"Absent", kind}
                     \/ \E e \in held : e.end # want
       IN  IF panics
           THEN /\ act' = [act EXCEPT !.cm.pc = "fail"]
                /\ UNCHANGED <<chan, hist>>
           ELSE IF held # {}
           THEN LET e == CHOOSE x \in held : TRUE
                IN  /\ act' = [act EXCEPT !.cm.map[id] =
                          IF idx = -1 THEN [kind |-> "Absent", ends |-> {}]
                          ELSE [kind |-> "Broadcast", ends |-> entry.ends \ {e}]]
                    /\ hist' = Append(hist, [id |-> id, idx |-> idx, end |-> want,
                                             ch |-> e.ch])
                    /\ chan' = chan
           ELSE /\ act' = [act EXCEPT !.cm.map[id] =
                      [kind |-> kind, ends |-> entry.ends \cup {kept}]]
                /\ hist' = Append(hist, [id |-> id, idx |-> idx, end |-> want, ch |-> ch])
                /\ chan' = Append(chan, bounded(capacity))
    /\ UNCHANGED cfg

get_receiver ==
    \E id \in ProducerIds, idx \in StreamIdxs, capacity \in Capacities :
        get_end("Rcv", id, idx, capacity)

get_sender ==
    \E id \in ProducerIds, idx \in StreamIdxs, capacity \in Capacities :
        get_end("Snd", id, idx, capacity)

\* instantiate: the empty map.
InitCM ==
    /\ cfg = [graph |-> "CM"]
    /\ chan = <<>>
    /\ hist = <<>>
    /\ act = [cm |-> [pc |-> "build",
                      map |-> [id \in ProducerIds |-> [kind |-> "Absent", ends |-> {}]]]]

NextCM ==
    \/ get_receiver
    \/ get_sender

SpecCM == InitCM /\ [][NextCM]_vars

\* C38: each key (producer_id, stream_index) is bound to at most one
\* channel: the ends handed out for a key belong to the same channel, and no
\* end of a key is handed out twice (a further request is rejected rather
\* than answered from a second channel).
C38_OneChannelPerKey ==
    cfg.graph = "CM" =>
        \A i, j \in 1..Len(hist) :
            (hist[i].id = hist[j].id /\ hist[i].idx = hist[j].idx) =>
                /\ hist[i].ch = hist[j].ch
                /\ (i # j => hist[i].end # hist[j].end)

\* What does hold: the first two ends handed out for a key are the sender
\* and the receiver of one channel, whatever the order of the two calls.
C38_FirstPairShareChannel ==
    cfg.graph = "CM" =>
        \A i, j \in 1..Len(hist) :
            (/\ i < j
             /\ hist[i].id = hist[j].id /\ hist[i].idx = hist[j].idx
             /\ \A k \in 1..(j - 1) :
                   (hist[k].id = hist[i].id /\ hist[k].idx = hist[i].idx) => k = i)
                => (hist[i].ch = hist[j].ch /\ hist[i].end # hist[j].end)

(***************************************************************************)
(* SelectAdapter (primitives/select.rs): the two selector types and their  *)
(* conversions from and to a vector of indices.  MultiHotN is a vector of  *)
(* bits (from_sel_vec and to_sel_vec above); IndexN is a vector of         *)
(* Option<usize>, Some(x) written <<x>> and None written <<>>.             *)
(***************************************************************************)
MaxSize == 4

\* An IndexN that loses its first entry.
IndexN_from_sel_vec_rest(sel_vec, size) ==
    [i \in 1..Len(sel_vec) |-> IF i = 1 THEN <<>> ELSE <<sel_vec[i]>>]

\* IndexN::from_sel_vec: one Some(idx) per entry of sel_vec, size unused.
IndexN_from_sel_vec(sel_vec, size) ==
    [i \in 1..Len(sel_vec) |-> <<sel_vec[i]>>]

\* IndexN::to_sel_vec: the entries that are Some, in their order.
IndexN_to_sel_vec(underlying) ==
    LET some == SelectSeq(underlying, LAMBDA data : data # <<>>)
    IN  [i \in 1..Len(some) |-> some[i][1]]

\* from_sel_vec of the adapter under test.
Select_from ==
    /\ act.sa.pc = "from"
    /\ act' = [act EXCEPT !.sa.pc = "to",
                          !.sa.underlying =
                              IF cfg.adapter = "MultiHotN"
                              THEN from_sel_vec(cfg.sel_vec, cfg.size)
                              ELSE IndexN_from_sel_vec(cfg.sel_vec, cfg.size)]
    /\ UNCHANGED <<cfg, chan, hist>>

\* to_sel_vec of the selector built.
Select_to ==
    /\ act.sa.pc = "to"
    /\ act' = [act EXCEPT !.sa.pc = "done",
                          !.sa.res_vec =
                              IF cfg.adapter = "MultiHotN"
                              THEN to_sel_vec(act.sa.underlying)
                              ELSE IndexN_to_sel_vec(act.sa.underlying)]
    /\ UNCHANGED <<cfg, chan, hist>>

\* Every index vector of up to MaxLen entries, each smaller than size.
InitSel ==
    /\ \E adapter \in {"MultiHotN", "IndexN"}, size \in 1..MaxSize :
          \E sel_vec \in SeqsOf(0..(size - 1), 0, MaxLen) :
             cfg = [graph |-> "Sel", adapter |-> adapter, size |-> size,
                    sel_vec |-> sel_vec]
    /\ chan = <<>>
    /\ hist = <<>>
    /\ act = [sa |-> [pc |-> "from", underlying |-> <<>>, res_vec |-> <<>>]]

NextSel ==
    \/ Select_from
    \/ Select_to

SpecSel == InitSel /\ [][NextSel]_vars

\* Strictly ascending: the order and multiplicity a bit vector can hold.
Ascending(v) == \A i, j \in 1..Len(v) : i < j => v[i] < v[j]

\* C39 as stated: for both MultiHotN and IndexN and every index vector v
\* whose entries are all smaller than size, from_sel_vec(v, size).to_sel_vec()
\* equals v.
C39_RoundTripAny ==
    (cfg.graph = "Sel" /\ act.sa.pc = "done") => act.sa.res_vec = cfg.sel_vec

\* C39 amended: the round trip returns v for IndexN always and for MultiHotN
\* when v is strictly ascending; for any other v MultiHotN returns the
\* distinct entries of v in ascending order.
C39_RoundTrip ==
    (cfg.graph = "Sel" /\ act.sa.pc = "done") =>
        LET v == cfg.sel_vec
            r == act.sa.res_vec
        IN  /\ (cfg.adapter = "IndexN" \/ Ascending(v)) => r = v
            /\ cfg.adapter = "MultiHotN" =>
                  /\ Ascending(r)
                  /\ {r[i] : i \in 1..Len(r)} = {v[i] : i \in 1..Len(v)}

\* Both forms of the round trip have been taken on vectors of several
\* entries: here MultiHotN on an ascending vector that skips an index.
C39_Witness ==
    /\ cfg.graph = "Sel" /\ act.sa.pc = "done"
    /\ cfg.adapter = "MultiHotN"
    /\ cfg.sel_vec = <<1, 3>> /\ cfg.size = 4
    /\ act.sa.res_vec = <<1, 3>>

(***************************************************************************)
(* Buffer::to_elem_iter on its own (primitives/buffer.rs and its tests     *)
(* buffer_to_iter): a buffer of a given shape holding the payloads 1..n    *)
(* in row-major order is turned into its stream, which the test collects   *)
(* element by element into hist.                                           *)
(***************************************************************************)
MaxNdim == 3

MaxExtent == 3

\* One next() of the iterator: the following element of the stream.
Iter_next ==
    /\ act.it.pc = "iter"
    /\ LET out == to_elem_iter([shape |-> cfg.shape,
                                data |-> [i \in 1..Product(cfg.shape) |-> i]])
       IN  /\ Len(hist) < Len(out)
           /\ hist' = Append(hist, out[Len(hist) + 1])
    /\ UNCHANGED <<cfg, chan, act>>

\* The iterator is exhausted: collect() returns.
Iter_collect ==
    /\ act.it.pc = "iter"
    /\ Len(hist) = Len(to_elem_iter([shape |-> cfg.shape,
                                     data |-> [i \in 1..Product(cfg.shape) |-> i]]))
    /\ act' = [act EXCEPT !.it.pc = "done"]
    /\ UNCHANGED <<cfg, chan, hist>>

InitIter ==
    /\ \E shape \in SeqsOf(1..MaxExtent, 1, MaxNdim) : cfg = [graph |-> "Iter", shape |-> shape]
    /\ chan = <<>>
    /\ hist = <<>>
    /\ act = [it |-> [pc |-> "iter"]]

NextIter ==
    \/ Iter_next
    \/ Iter_collect

SpecIter == InitIter /\ [][NextIter]_vars

\* The stream the stop-token encoding prescribes for a shape: the payloads
\* in row-major order, each with the number of innermost dimensions that
\* wrap after it (0: a Val).
Encoded(shape) ==
    [i \in 1..Product(shape) |->
        LET k == AtEnd(MultiIndex(i - 1, shape), shape)
        IN  IF k = 0 THEN Val(i) ELSE ValStop(i, k)]

\* C40: for every buffer of rank R >= 1 and every shape, to_elem_iter yields
\* the elements in row-major order, an element carrying ValStop(_, k)
\* exactly when k >= 1 innermost dimensions wrap immediately after it and
\* Val otherwise, the final element carrying ValStop(_, R).
C40_IterStops ==
    (cfg.graph = "Iter" /\ act.it.pc = "done") =>
        /\ hist = Encoded(cfg.shape)
        /\ hist[Len(hist)] = ValStop(Len(hist), Len(cfg.shape))

\* The same for the buffers of more than one element and those of rank 1,
\* which is where the statement holds.
C40_IterStopsOfMany ==
    (cfg.graph = "Iter" /\ act.it.pc = "done"
        /\ (Product(cfg.shape) > 1 \/ Len(cfg.shape) = 1)) =>
        /\ hist = Encoded(cfg.shape)
        /\ hist[Len(hist)] = ValStop(Len(hist), Len(cfg.shape))
====
